---- MODULE Spec2Model ----
(***************************************************************************)
(* Sandbox pool, task registry / orchestrator and archival worker of the   *)
(* computer-use-agent backend (CUA/cua2-core).                             *)
(*                                                                         *)
(* The specifications of this module:                                      *)
(*   PoolSpec  the SandboxService alone, driven by arbitrary callers;      *)
(*   Spec      the AgentService (connections, task records, execution      *)
(*             loops) on top of the same SandboxService;                   *)
(*   AdmitSpec the same with two connections, at the admission ceiling;    *)
(*   LoopSpec  one execution loop next to pool callers for other keys;     *)
(*   StepSpec  the step list of one Task Record;                           *)
(*   ArchSpec  the archival worker's sweep over the data directory;        *)
(*   ProcSpec  the processes that may host the archival worker;            *)
(*   StopSpec, CycleSpec  the worker's main loop and ArchivalService.stop. *)
(*                                                                         *)
(* A slot's metadata holds created_at. The program reads it only in two    *)
(* comparisons of now - created_at, against SANDBOX_CREATION_TIMEOUT       *)
(* (200 s) and against SANDBOX_CREATION_MAX_TIME (300 s); the model holds  *)
(* which of the three intervals the slot's age is in, and every slot       *)
(* grows older on its own.                                                 *)
(*                                                                         *)
(* All coroutines run on one asyncio event loop: a step of the model is    *)
(* the code between two points where a coroutine can be suspended. An      *)
(* "async with" on a lock nobody holds does not suspend.                   *)
(***************************************************************************)
EXTENDS FiniteSets, Integers, Sequences, TLC

\* ------------------------------------------------------------------ bounds
\* number of background provisioning tasks a behaviour may start
MaxProv == 3
\* ... and how many of them a behaviour of Spec may start
MaxOrchProv == 2
\* number of websocket connections a behaviour of Spec may open
MaxConns == 1
\* ... and how many a behaviour of AdmitSpec may open
MaxAdmitConns == 2
\* number of tasks a behaviour may admit (process_user_task calls that start a loop)
MaxRuns == 2
\* number of task keys in a behaviour of ArchSpec
MaxArchKeys == 2
\* iterations of the worker's wait loop (archive_interval_minutes * 60)
MaxTicks == 2
\* number of steps the agent of one task takes (memory_step.step_number)
MaxStepNumber == 3
\* length up to which the step list of one Task Record is followed
MaxStepRecords == 4

\* --------------------------------------------------------- program constants
\* SandboxService.max_sandboxes: the pool's capacity (and, through app.py,
\* the orchestrator's admission ceiling); 50 by default
max_sandboxes == 2
\* attempts of the execution loop to get a ready sandbox (20 in the program)
max_attempts == 2
\* E2BVisionAgent.max_steps (30 in the program)
max_steps == 2

\* task keys (uuid4 strings in the program), in the order they are issued
Keys == {"k1", "k2", "k3"}
KeyOrder == <<"k1", "k2", "k3">>
\* the execution loops (_agent_processing tasks), in the order they are started
Runs == 1..MaxRuns
\* handles of remote instances: the instance made by provisioning task p is p
Provs == 1..MaxProv
NoHandle == 0

VARIABLES
    \* ---- SandboxService
    sandboxes,          \* self.sandboxes: key -> handle (NoHandle: absent)
    sandbox_metadata,   \* self.sandbox_metadata: key -> state, age, last_accessed
    sandbox_lock,       \* self.sandbox_lock: 0 free, else the provisioning task holding it
    prov,               \* the _create_sandbox_background tasks
    kills,              \* number of kill() calls made on each handle
    ret,                \* what the last acquire_sandbox call of a pool caller returned
    \* ---- AgentService
    conn,               \* each key's websocket: position of websocket_endpoint
    task_websockets,    \* self.task_websockets: key -> bound to its websocket
    active_tasks,       \* self.active_tasks: key -> Task Record
    last_screenshot,    \* self.last_screenshot: key -> absent / None / image
    run,                \* the _agent_processing tasks
    hist,               \* per admitted record: terminal states recorded, the
                        \* final_state last passed to update_trace_metadata and
                        \* whether that run had caught a WebSocketException; per
                        \* loop: stop seen while running, steps begun since,
                        \* provisioning tasks at work when its finalization completed
    active_task,        \* one ActiveTask: its steps (step id and evaluation of
                        \* each AgentStep) and its agent's step_number
    \* ---- ArchivalService and what it works on
    traces,             \* the orchestrator's view: key -> admitted / removed, model id
    shared_active_tasks,\* self._active_tasks: the manager dict the worker reads
    updating,           \* keys update_active_tasks has still to write
    folders,            \* data directory: name -> absent / new / old (age >= threshold)
    archives,           \* names of the folders that have a local <name>.tar.gz
    repo,               \* names of the folders whose archive is in the dataset repository
    sweep,              \* _process_old_folders: position, listing, current folder
    \* ---- the worker-hosting processes, each with its own AgentService
    procs,              \* process -> position, lock file held, Archival Worker
                        \* alive, its active_tasks, its ArchivalService._active_tasks
    \* ---- one ArchivalService, its stop() and its worker process's main loop
    svc                 \* _process, _stop_event, position of stop(), signals on
                        \* their way, position of _archival_worker_process

poolVars == <<sandboxes, sandbox_metadata, sandbox_lock, prov, kills>>
orchVars == <<conn, task_websockets, active_tasks, last_screenshot, run, hist,
              active_task>>
sweepVars == <<traces, shared_active_tasks, updating, folders, archives, repo, sweep>>
archVars == <<traces, shared_active_tasks, updating, folders, archives, repo, sweep,
              procs, svc>>
vars == <<sandboxes, sandbox_metadata, sandbox_lock, prov, kills, ret,
          conn, task_websockets, active_tasks, last_screenshot, run, hist,
          active_task,
          traces, shared_active_tasks, updating, folders, archives, repo, sweep,
          procs, svc>>

\* ------------------------------------------------------------ SandboxService
\* age: "under_timeout"  now - created_at < SANDBOX_CREATION_TIMEOUT
\*      "over_timeout"   ... >= SANDBOX_CREATION_TIMEOUT, <= SANDBOX_CREATION_MAX_TIME
\*      "over_max_time"  ... > SANDBOX_CREATION_MAX_TIME
\* last_accessed: "created_at" (as registered) or "later" (set by a reuse)
NoMeta == [state |-> "none", age |-> "none", last_accessed |-> "none"]
NewMeta == [state |-> "creating", age |-> "under_timeout",
            last_accessed |-> "created_at"]
NoProv == [key |-> "none", pc |-> "unused", expired |-> NoHandle]
\* a task that has returned
DoneProv == [key |-> "none", pc |-> "done", expired |-> NoHandle]

\* dict membership
InSandboxes(sb, k) == sb[k] # NoHandle
InMetadata(md, k) == md[k].state # "none"

\* the reuse test of acquire_sandbox
ReadyFresh_Never(k) == FALSE
ReadyFresh(k) ==
    /\ InSandboxes(sandboxes, k)
    /\ InMetadata(sandbox_metadata, k)
    /\ sandbox_metadata[k].state = "ready"
    /\ sandbox_metadata[k].age = "under_timeout"

\* the "already being created" test of acquire_sandbox
AlreadyCreating_NoCheck(k) == FALSE
AlreadyCreating(k) ==
    InMetadata(sandbox_metadata, k) /\ sandbox_metadata[k].state = "creating"

\* the maps after "mark expired sandbox for cleanup"
DetachedSandboxes_Kept(k) == sandboxes
DetachedSandboxes(k) ==
    IF InSandboxes(sandboxes, k) THEN [sandboxes EXCEPT ![k] = NoHandle] ELSE sandboxes
DetachedMetadata(k) ==
    IF InSandboxes(sandboxes, k) THEN [sandbox_metadata EXCEPT ![k] = NoMeta]
    ELSE sandbox_metadata
ExpiredSandbox(k) == sandboxes[k]

\* len(self.sandboxes) + creating_count
SlotCount_NoCreating(sb, md) == Cardinality({j \in Keys : InSandboxes(sb, j)})
SlotCount(sb, md) ==
    Cardinality({j \in Keys : InSandboxes(sb, j)})
        + Cardinality({j \in Keys : md[j].state = "creating"})

\* the capacity test of acquire_sandbox
CapacityReached_OffByOne(sb, md) == SlotCount(sb, md) > max_sandboxes
CapacityReached(sb, md) == SlotCount(sb, md) >= max_sandboxes

\* which branch the first critical section of acquire_sandbox(k) takes
AcquireBranch(k) ==
    IF ReadyFresh(k) THEN "ready"
    ELSE IF AlreadyCreating(k) THEN "creating"
    ELSE IF CapacityReached(DetachedSandboxes(k), DetachedMetadata(k))
         THEN "max_sandboxes_reached"
    ELSE "register"

FreeProvs == {p \in Provs : prov[p].pc = "unused"}
NextProv == CHOOSE p \in FreeProvs : \A q \in FreeProvs : p <= q
\* a call of acquire_sandbox(k) made by the orchestrator stays within MaxOrchProv
WithinOrchProv(k) ==
    AcquireBranch(k) = "register" =>
        Cardinality(Provs \ FreeProvs) < MaxOrchProv

\* First critical section of acquire_sandbox(k) and the create_task that
\* follows it. Leaves ret and the callers' variables to the calling action.
AcquireSection1(k) ==
    /\ sandbox_lock = 0
    /\ kills' = kills
    /\ sandbox_lock' = sandbox_lock
    /\ CASE AcquireBranch(k) = "ready" ->
              /\ sandbox_metadata' =
                    [sandbox_metadata EXCEPT ![k].last_accessed = "later"]
              /\ UNCHANGED <<sandboxes, prov>>
         [] AcquireBranch(k) = "creating" ->
              UNCHANGED <<sandboxes, sandbox_metadata, prov>>
         [] AcquireBranch(k) = "max_sandboxes_reached" ->
              \* the expired sandbox, if any, is detached and never killed
              /\ sandboxes' = DetachedSandboxes(k)
              /\ sandbox_metadata' = DetachedMetadata(k)
              /\ UNCHANGED prov
         [] AcquireBranch(k) = "register" ->
              /\ FreeProvs # {}
              /\ sandboxes' = DetachedSandboxes(k)
              /\ sandbox_metadata' =
                    [DetachedMetadata(k) EXCEPT ![k] = NewMeta]
              /\ prov' = [prov EXCEPT ![NextProv] =
                    [key |-> k,
                     pc |-> IF ExpiredSandbox(k) # NoHandle
                            THEN "kill_expired" ELSE "creating",
                     expired |-> ExpiredSandbox(k)]]

\* Second critical section of acquire_sandbox(k): what it returns.
AcquireSection2State(k) ==
    IF InMetadata(sandbox_metadata, k) /\ sandbox_metadata[k].state = "ready"
       /\ InSandboxes(sandboxes, k)
    THEN "ready" ELSE "creating"
AcquireSection2Handle(k) ==
    IF AcquireSection2State(k) = "ready" THEN sandboxes[k] ELSE NoHandle

\* release_sandbox(k): the critical section and the kill after it.
ReleaseKills(k) ==
    IF InSandboxes(sandboxes, k)
    THEN [kills EXCEPT ![sandboxes[k]] = @ + 1] ELSE kills
ReleaseSandbox_NoDetach(k) ==
    /\ sandbox_lock = 0
    /\ sandboxes' = sandboxes
    /\ sandbox_metadata' = sandbox_metadata
    /\ kills' = ReleaseKills(k)
    /\ UNCHANGED <<sandbox_lock, prov>>
ReleaseSandbox(k) ==
    /\ sandbox_lock = 0
    /\ sandboxes' = [sandboxes EXCEPT ![k] = NoHandle]
    /\ sandbox_metadata' = [sandbox_metadata EXCEPT ![k] = NoMeta]
    /\ kills' = ReleaseKills(k)
    /\ UNCHANGED <<sandbox_lock, prov>>

\* ---- _create_sandbox_background
\* kill the expired sandbox handed over by acquire_sandbox
ProvKillExpired(p) ==
    /\ prov[p].pc = "kill_expired"
    /\ kills' = [kills EXCEPT ![prov[p].expired] = @ + 1]
    /\ prov' = [prov EXCEPT ![p].pc = "creating", ![p].expired = NoHandle]
    /\ UNCHANGED <<sandboxes, sandbox_metadata, sandbox_lock, ret, orchVars, archVars>>

\* the double check of _create_sandbox_background before it installs
StillCreating(k) ==
    InMetadata(sandbox_metadata, k) /\ sandbox_metadata[k].state = "creating"

\* create_and_setup_sandbox returned: install under the lock, or keep the
\* lock and kill the instance when the slot is gone or no longer "creating"
ProvSucceed(p) ==
    /\ prov[p].pc = "creating"
    /\ sandbox_lock = 0
    /\ IF StillCreating(prov[p].key)
       THEN /\ sandboxes' = [sandboxes EXCEPT ![prov[p].key] = p]
            /\ sandbox_metadata' =
                  [sandbox_metadata EXCEPT ![prov[p].key].state = "ready"]
            /\ prov' = [prov EXCEPT ![p] = DoneProv]
            /\ UNCHANGED sandbox_lock
       ELSE /\ sandbox_lock' = p
            /\ prov' = [prov EXCEPT ![p].pc = "orphan_kill"]
            /\ UNCHANGED <<sandboxes, sandbox_metadata>>
    /\ UNCHANGED <<kills, ret, orchVars, archVars>>

\* the kill of the orphaned instance returned (or raised): leave the lock
ProvOrphanKilled(p) ==
    /\ prov[p].pc = "orphan_kill"
    /\ sandbox_lock = p
    /\ kills' = [kills EXCEPT ![p] = @ + 1]
    /\ sandbox_lock' = 0
    /\ prov' = [prov EXCEPT ![p] = DoneProv]
    /\ UNCHANGED <<sandboxes, sandbox_metadata, ret, orchVars, archVars>>

\* create_and_setup_sandbox raised: drop the key's metadata, whatever it is
ProvFail(p) ==
    /\ prov[p].pc = "creating"
    /\ sandbox_lock = 0
    /\ sandbox_metadata' = [sandbox_metadata EXCEPT ![prov[p].key] = NoMeta]
    /\ prov' = [prov EXCEPT ![p] = DoneProv]
    /\ UNCHANGED <<sandboxes, sandbox_lock, kills, ret, orchVars, archVars>>

\* ---- cleanup_stuck_creating_sandboxes
Stuck_AnyCreating(k) == sandbox_metadata[k].state = "creating"
Stuck(k) ==
    /\ sandbox_metadata[k].state = "creating"
    /\ sandbox_metadata[k].age = "over_max_time"
SweepStuck ==
    /\ sandbox_lock = 0
    /\ \E k \in Keys : Stuck(k)
    /\ sandbox_metadata' =
          [k \in Keys |-> IF Stuck(k) THEN NoMeta ELSE sandbox_metadata[k]]
    /\ sandboxes' =
          [k \in Keys |-> IF Stuck(k) THEN NoHandle ELSE sandboxes[k]]
    /\ kills' = [h \in Provs |->
          IF \E k \in Keys : Stuck(k) /\ sandboxes[k] = h
          THEN kills[h] + 1 ELSE kills[h]]
    /\ UNCHANGED <<sandbox_lock, prov, ret, orchVars, archVars>>

\* ---- cleanup_sandboxes
Drain ==
    /\ sandbox_lock = 0
    /\ \E k \in Keys : InSandboxes(sandboxes, k)
    /\ sandboxes' = [k \in Keys |-> NoHandle]
    /\ sandbox_metadata' =
          [k \in Keys |-> IF InSandboxes(sandboxes, k) THEN NoMeta
                          ELSE sandbox_metadata[k]]
    /\ kills' = [h \in Provs |->
          IF \E k \in Keys : sandboxes[k] = h THEN kills[h] + 1 ELSE kills[h]]
    /\ UNCHANGED <<sandbox_lock, prov, ret, orchVars, archVars>>

\* time passes: the age of k's slot crosses the next of the two thresholds
Older(a) == IF a = "under_timeout" THEN "over_timeout" ELSE "over_max_time"
GrowOlder(k) ==
    /\ InMetadata(sandbox_metadata, k)
    /\ sandbox_metadata[k].age # "over_max_time"
    /\ sandbox_metadata' = [sandbox_metadata EXCEPT ![k].age = Older(@)]
    /\ UNCHANGED <<sandboxes, sandbox_lock, prov, kills, ret, orchVars, archVars>>

\* ---- callers of the pool in PoolSpec: any key, any time
\* ret: the last call that returned (op "acquire": acquire_sandbox through
\* one of its early returns, "registered": through its second critical
\* section, "release": release_sandbox, n-th in a row for the key) and the
\* key of the one acquire_sandbox call between its two critical sections
NoRet == [op |-> "none", key |-> "none", state |-> "none",
          handle |-> NoHandle, n |-> 0, pending |-> "none"]

\* acquire_sandbox(k) taking one of its early returns
PoolAcquire(k) ==
    /\ AcquireBranch(k) # "register"
    /\ AcquireSection1(k)
    /\ UNCHANGED <<orchVars, archVars>>
    /\ ret' = [op |-> "acquire", key |-> k, state |-> AcquireBranch(k),
               handle |-> IF AcquireBranch(k) = "ready" THEN sandboxes[k]
                          ELSE NoHandle,
               n |-> 0, pending |-> ret.pending]

\* acquire_sandbox(k) registering a slot; its second critical section follows
PoolAcquireRegister(k) ==
    /\ AcquireBranch(k) = "register"
    /\ ret.pending = "none"
    /\ AcquireSection1(k)
    /\ ret' = [ret EXCEPT !.pending = k]
    /\ UNCHANGED <<orchVars, archVars>>

PoolAcquireReturn ==
    /\ UNCHANGED <<orchVars, archVars>>
    /\ ret.pending # "none"
    /\ sandbox_lock = 0
    /\ ret' = [op |-> "registered", key |-> ret.pending,
               state |-> AcquireSection2State(ret.pending),
               handle |-> AcquireSection2Handle(ret.pending),
               n |-> 0, pending |-> "none"]
    /\ UNCHANGED poolVars

\* release_sandbox(k) returns without raising, whatever it found
AgainReleased(k) == ret.op = "release" /\ ret.key = k
PoolRelease(k) ==
    /\ ReleaseSandbox(k)
    /\ ret' = [op |-> "release", key |-> k,
               state |-> IF InSandboxes(sandboxes, k)
                            \/ InMetadata(sandbox_metadata, k)
                         THEN "slot" ELSE "no_slot",
               handle |-> IF InSandboxes(sandboxes, k) THEN sandboxes[k]
                          ELSE IF AgainReleased(k) THEN ret.handle
                          ELSE NoHandle,
               n |-> IF AgainReleased(k) THEN 2 ELSE 1,
               pending |-> ret.pending]
    /\ UNCHANGED <<orchVars, archVars>>

\* -------------------------------------------------------------- AgentService
NoTask == [rid |-> 0, completed |-> FALSE]
NoRun == [key |-> "none", pc |-> "unused", att |-> 0, step |-> 0,
          final_state |-> "success",
          websocket_exception |-> FALSE, websocket |-> FALSE,
          pending_exc |-> FALSE]
NoHist == [finals |-> 0, flagged |-> FALSE, begun |-> 0, stale |-> {},
           final_state |-> "none", websocket_exception |-> FALSE]

InActiveTasks(at, k) == at[k].rid # 0
FreeRuns == {r \in Runs : run[r].pc = "unused"}
NextRun == CHOOSE r \in FreeRuns : \A q \in FreeRuns : r <= q
Issued == {k \in Keys : conn[k] # "unissued"}

\* the loop of run r has not reached its handlers or its finally block
LoopRunning(r) ==
    run[r].pc \in {"start", "send_start", "acquire", "acquire2", "send_vnc",
                   "step", "cb", "cb_send", "cb_shot"}

\* websocket.client_state == WebSocketState.CONNECTED
Connected(k) == conn[k] = "open"

\* What a send of the WebSocketManager can do: deliver, or raise
\* WebSocketException. It can deliver only to a websocket that is open.
SendOutcomes(r) ==
    IF run[r].websocket /\ Connected(run[r].key) THEN {"ok", "raise"}
    ELSE {"raise"}

\* the except clauses of _agent_runner that do not await: the finally block
\* follows at once
OnStop(rec, state) == [rec EXCEPT !.pc = "finally", !.final_state = state]
OnWebSocketException(rec) ==
    [rec EXCEPT !.pc = "finally", !.websocket_exception = TRUE]
OnTimeout(rec) == [rec EXCEPT !.pc = "finally", !.final_state = "sandbox_timeout"]
\* except (Exception, KeyboardInterrupt): final_state, then send_agent_error
OnException(rec) == [rec EXCEPT !.pc = "send_error", !.final_state = "error"]

\* update_trace_metadata(completed=True) on the record of k, and the loops
\* of k that are still running when the flag is set
SetCompleted(k) ==
    IF InActiveTasks(active_tasks, k)
    THEN [active_tasks EXCEPT ![k].completed = TRUE] ELSE active_tasks
Flagged(k) ==
    [r \in Runs |-> IF InActiveTasks(active_tasks, k) /\ run[r].key = k
                       /\ LoopRunning(r)
                    THEN [hist[r] EXCEPT !.flagged = TRUE] ELSE hist[r]]

\* the agent begins step n of run r
BeginStep(rec, n) == [rec EXCEPT !.pc = "step", !.step = n]
CountBegun(r) ==
    [hist EXCEPT ![r].begun =
        IF hist[r].flagged /\ @ < 2 THEN @ + 1 ELSE @]
\* run r has left its loop
LoopOver(hs, r) == [hs EXCEPT ![r].flagged = FALSE, ![r].begun = 0]

\* ---- websocket_endpoint / create_id_and_sandbox
\* A fresh key is bound to the websocket and acquire_sandbox is called for it;
\* n bounds the number of connections of the behaviour.
ConnectWithin(k, n) ==
    /\ conn[k] = "unissued"
    /\ Cardinality(Issued) < n
    /\ k = KeyOrder[Cardinality(Issued) + 1]
    /\ conn' = [conn EXCEPT ![k] = "open"]
    /\ task_websockets' = [task_websockets EXCEPT ![k] = TRUE]
    /\ WithinOrchProv(k)
    /\ AcquireSection1(k)
    /\ UNCHANGED <<active_tasks, last_screenshot, run, hist, ret, active_task, archVars>>

Connect(k) == ConnectWithin(k, MaxConns)
AdmitConnect(k) == ConnectWithin(k, MaxAdmitConns)

\* ---- process_user_task, trace.id = k sent on k's own websocket
\* len(self.active_tasks) >= self.max_sandboxes
AtCeiling ==
    Cardinality({j \in Keys : InActiveTasks(active_tasks, j)}) >= max_sandboxes

BeginTask(k) ==
    /\ conn[k] = "open"
    /\ task_websockets[k]
    /\ ~AtCeiling
    /\ FreeRuns # {}
    /\ active_tasks' = [active_tasks EXCEPT ![k] =
                            [rid |-> NextRun, completed |-> FALSE]]
    /\ last_screenshot' = [last_screenshot EXCEPT ![k] = "None"]
    /\ run' = [run EXCEPT ![NextRun] = [NoRun EXCEPT !.key = k, !.pc = "start"]]
    /\ UNCHANGED <<conn, task_websockets, hist, poolVars, ret, active_task, archVars>>

\* at the ceiling: send_agent_start(status="max_sandboxes_reached"), return
BeginRejected_Stores(k) ==
    /\ conn[k] = "open"
    /\ task_websockets[k]
    /\ AtCeiling
    /\ ret' = [NoRet EXCEPT !.op = "begin", !.key = k,
                            !.state = "max_sandboxes_reached"]
    /\ active_tasks' = [active_tasks EXCEPT ![k].completed = FALSE]
    /\ last_screenshot' = [last_screenshot EXCEPT ![k] = "None"]
    /\ UNCHANGED <<conn, task_websockets, run, hist, poolVars, active_task, archVars>>
BeginRejected(k) ==
    /\ conn[k] = "open"
    /\ task_websockets[k]
    /\ AtCeiling
    /\ ret' = [NoRet EXCEPT !.op = "begin", !.key = k,
                            !.state = "max_sandboxes_reached"]
    /\ UNCHANGED <<orchVars, poolVars, archVars>>

\* ---- stop_task(k), from any open websocket
StopTask(k) ==
    /\ \E j \in Keys : conn[j] = "open"
    /\ InActiveTasks(active_tasks, k)
    /\ ~active_tasks[k].completed
    /\ active_tasks' = SetCompleted(k)
    /\ hist' = Flagged(k)
    /\ UNCHANGED <<conn, task_websockets, last_screenshot, run, poolVars, ret, active_task, archVars>>

\* ---- cleanup_tasks_for_websocket(websocket of k)
\* The keys bound to the websocket are collected and unbound; for each, the
\* record (if any) is flagged, then release_sandbox is awaited.
CleanupKey_OnlyWithTask(k, done, waiting) ==
    /\ active_tasks' = SetCompleted(k)
    /\ hist' = Flagged(k)
    /\ IF sandbox_lock = 0
       THEN /\ IF InActiveTasks(active_tasks, k) THEN ReleaseSandbox(k)
               ELSE UNCHANGED poolVars
            /\ conn' = [conn EXCEPT ![k] = done]
       ELSE /\ UNCHANGED poolVars
            /\ conn' = [conn EXCEPT ![k] = waiting]
CleanupKey(k, done, waiting) ==
    /\ active_tasks' = SetCompleted(k)
    /\ hist' = Flagged(k)
    /\ IF sandbox_lock = 0
       THEN /\ ReleaseSandbox(k)
            /\ conn' = [conn EXCEPT ![k] = done]
       ELSE /\ UNCHANGED poolVars
            /\ conn' = [conn EXCEPT ![k] = waiting]

cleanup_tasks_for_websocket(k, done, waiting) ==
    /\ task_websockets' = [task_websockets EXCEPT ![k] = FALSE]
    /\ IF task_websockets[k] THEN CleanupKey(k, done, waiting)
       ELSE /\ conn' = [conn EXCEPT ![k] = done]
            /\ UNCHANGED <<active_tasks, hist, poolVars>>
    /\ UNCHANGED <<last_screenshot, run, ret, active_task, archVars>>

\* the websocket of k disconnects: the finally block of websocket_endpoint
Close(k) ==
    /\ conn[k] = "open"
    /\ cleanup_tasks_for_websocket(k, "closed", "closing")

\* release_sandbox of the cleanup gets the lock it had to wait for
CloseRelease(k) ==
    /\ conn[k] \in {"closing", "reclosing"}
    /\ ReleaseSandbox(k)
    /\ conn' = [conn EXCEPT ![k] = IF conn[k] = "closing" THEN "closed"
                                   ELSE "reclosed"]
    /\ UNCHANGED <<task_websockets, active_tasks, last_screenshot, run, hist, ret, active_task, archVars>>

\* cleanup_tasks_for_websocket called once more for a websocket already closed
CloseAgain(k) ==
    /\ conn[k] = "closed"
    /\ cleanup_tasks_for_websocket(k, "reclosed", "reclosing")

\* ---- _agent_processing / _agent_runner, one task per admitted record
KeyOf(r) == run[r].key
SetRun(r, rec) == run' = [run EXCEPT ![r] = rec]
\* a task that has returned (pc "done") or raised (pc "aborted")
Ended(rec, pc) == [NoRun EXCEPT !.key = rec.key, !.pc = pc]

\* the provisioning tasks at work for key k
InFlight(k) ==
    {p \in Provs : prov[p].key = k /\ prov[p].pc \in {"kill_expired", "creating"}}

\* release_sandbox(rec.key) called by run r, which goes on as rec when the
\* call has returned; while another coroutine holds the lock it waits
ReleaseThen(r, rec, waiting) ==
    IF sandbox_lock = 0
    THEN ReleaseSandbox(rec.key) /\ SetRun(r, rec)
    ELSE UNCHANGED poolVars /\ SetRun(r, waiting)

\* the except clause of _agent_processing: release_sandbox, re-raise
ProcExcept(r, rec, at, ls, hs) ==
    /\ active_tasks' = at
    /\ last_screenshot' = ls
    /\ hist' = LoopOver(hs, r)
    /\ UNCHANGED task_websockets
    /\ ReleaseThen(r, Ended(rec, "aborted"), Ended(rec, "proc_except"))

\* lines 277-306: record the terminal state, store, remove the record, the
\* binding and the screenshot, release the sandbox
Finalize(r, rec, at, ls, hs) ==
    IF InActiveTasks(at, rec.key)
    THEN /\ hist' = [LoopOver(hs, r) EXCEPT
                        ![at[rec.key].rid].finals = @ + 1,
                        ![at[rec.key].rid].final_state = rec.final_state,
                        ![at[rec.key].rid].websocket_exception =
                            rec.websocket_exception,
                        ![r].stale = IF sandbox_lock = 0 THEN InFlight(rec.key)
                                     ELSE @]
         /\ active_tasks' = [at EXCEPT ![rec.key] = NoTask]
         /\ task_websockets' = [task_websockets EXCEPT ![rec.key] = FALSE]
         /\ last_screenshot' = [ls EXCEPT ![rec.key] = "absent"]
         /\ ReleaseThen(r, Ended(rec, IF rec.pending_exc THEN "proc_except"
                                      ELSE "done"),
                        [Ended(rec, "release") EXCEPT
                            !.pending_exc = rec.pending_exc])
    ELSE ProcExcept(r, rec, at, ls, hs)                     \* KeyError

\* the finally block of _agent_runner up to its first await
SendsComplete(rec) ==
    /\ ~rec.websocket_exception
    /\ rec.websocket
    /\ Connected(rec.key)
FinallyBlock(r, rec, at, ls, hs) ==
    IF SendsComplete(rec)
    THEN IF InActiveTasks(at, rec.key)
         THEN /\ SetRun(r, [rec EXCEPT !.pc = "send_complete"])
              /\ active_tasks' = at
              /\ last_screenshot' = ls
              /\ hist' = hs
              /\ UNCHANGED <<task_websockets, poolVars>>
         ELSE ProcExcept(r, rec, at, ls, hs)                \* KeyError, line 267
    ELSE Finalize(r, rec, at, ls, hs)

\* Run r goes on as rec; at, ls and hs are active_tasks, last_screenshot and
\* hist as the step leaves them. A step that raised goes through the except
\* clauses and the finally block up to the next await.
Advance(r, rec, at, ls, hs) ==
    /\ CASE rec.pc = "finally" -> FinallyBlock(r, rec, at, ls, hs)
         [] rec.pc = "proc_except" -> ProcExcept(r, rec, at, ls, hs)
         [] OTHER -> /\ SetRun(r, rec)
                     /\ active_tasks' = at
                     /\ last_screenshot' = ls
                     /\ hist' = hs
                     /\ UNCHANGED <<task_websockets, poolVars>>
    /\ UNCHANGED <<conn, ret, active_task, archVars>>
Go(r, rec) == Advance(r, rec, active_tasks, last_screenshot, hist)

\* _agent_processing up to the first await of _agent_runner
RunnerStart(r) ==
    /\ run[r].pc = "start"
    /\ \/ /\ ~InActiveTasks(active_tasks, KeyOf(r))         \* KeyError, line 315
          /\ Go(r, [run[r] EXCEPT !.pc = "proc_except"])
       \/ /\ InActiveTasks(active_tasks, KeyOf(r))          \* os.makedirs raises
          /\ Go(r, [run[r] EXCEPT !.pc = "proc_except"])
       \/ /\ InActiveTasks(active_tasks, KeyOf(r))
          /\ Go(r, [run[r] EXCEPT !.pc = "send_start",
                                  !.websocket = task_websockets[KeyOf(r)]])

\* send_agent_start returns or raises; get_model
RunnerSendStart(r) ==
    /\ run[r].pc = "send_start"
    /\ \E o \in SendOutcomes(r) :
          Go(r, IF o = "raise" THEN OnWebSocketException(run[r])
                ELSE IF InActiveTasks(active_tasks, KeyOf(r))
                     THEN [run[r] EXCEPT !.pc = "acquire"]
                     ELSE OnException(run[r]))              \* KeyError, line 185

\* the acquire loop after an attempt that returned "ready": lines 196-220
AfterReady(rec) ==
    IF InActiveTasks(active_tasks, rec.key) THEN [rec EXCEPT !.pc = "send_vnc"]
    ELSE OnException(rec)                                   \* KeyError, line 199
\* ... after an attempt that returned "creating": sleep, next attempt or give up
AfterCreating_OneMore(rec) ==
    IF rec.att + 1 > max_attempts THEN OnException(rec)
    ELSE [rec EXCEPT !.pc = "acquire", !.att = @ + 1]
AfterCreating(rec) ==
    IF rec.att + 1 >= max_attempts THEN OnException(rec)
    ELSE [rec EXCEPT !.pc = "acquire", !.att = @ + 1]

\* one attempt: acquire_sandbox up to its return or its second critical section
RunnerAcquire(r) ==
    /\ run[r].pc = "acquire"
    /\ WithinOrchProv(KeyOf(r))
    /\ AcquireSection1(KeyOf(r))
    /\ SetRun(r, CASE AcquireBranch(KeyOf(r)) = "ready" -> AfterReady(run[r])
                   [] AcquireBranch(KeyOf(r)) = "creating" -> AfterCreating(run[r])
                   [] AcquireBranch(KeyOf(r)) = "max_sandboxes_reached" ->
                          OnException(run[r])
                   [] AcquireBranch(KeyOf(r)) = "register" ->
                          [run[r] EXCEPT !.pc = "acquire2"])
    /\ UNCHANGED <<conn, task_websockets, active_tasks, last_screenshot, hist, ret, active_task, archVars>>

RunnerAcquire2(r) ==
    /\ run[r].pc = "acquire2"
    /\ sandbox_lock = 0
    /\ SetRun(r, IF AcquireSection2State(KeyOf(r)) = "ready"
                 THEN AfterReady(run[r]) ELSE AfterCreating(run[r]))
    /\ UNCHANGED <<conn, task_websockets, active_tasks, last_screenshot, hist,
                   poolVars, ret, active_task, archVars>>

\* send_vnc_url_set returns or raises; then the first screenshot and agent.run
RunnerSendVnc(r) ==
    /\ run[r].pc = "send_vnc"
    /\ \/ Go(r, OnWebSocketException(run[r]))
       \/ /\ "ok" \in SendOutcomes(r)          \* screenshot raises TimeoutException
          /\ Go(r, OnTimeout(run[r]))
       \/ /\ "ok" \in SendOutcomes(r)
          /\ Advance(r, BeginStep(run[r], 1), active_tasks,
                     [last_screenshot EXCEPT ![KeyOf(r)] = "image"],
                     CountBegun(r))

\* the checkpoint on the completed flag (lines 330 and 416)
StopRequested(k) == active_tasks[k].completed

\* The agent finishes step run[r].step and enters step_callback: lines 325-331.
AgentStep(r) ==
    /\ run[r].pc = "step"
    /\ \/ /\ run[r].step > max_steps
          /\ Go(r, OnStop(run[r], "max_steps_reached"))
       \/ /\ run[r].step <= max_steps
          /\ ~InActiveTasks(active_tasks, KeyOf(r))         \* KeyError, line 330
          /\ Go(r, OnException(run[r]))
       \/ /\ run[r].step <= max_steps
          /\ InActiveTasks(active_tasks, KeyOf(r))
          /\ StopRequested(KeyOf(r))
          /\ Go(r, OnStop(run[r], "stopped"))
       \/ /\ run[r].step <= max_steps
          /\ InActiveTasks(active_tasks, KeyOf(r))
          /\ ~StopRequested(KeyOf(r))
          /\ Go(r, [run[r] EXCEPT !.pc = "cb"])
       \/ /\ run[r].step <= max_steps           \* the step raises out of agent.run
          /\ Go(r, OnException(run[r]))

\* line 416, and what follows it
Checkpoint(rec) ==
    IF ~InActiveTasks(active_tasks, rec.key) THEN OnException(rec)
    ELSE IF StopRequested(rec.key) THEN OnStop(rec, "stopped")
    ELSE [rec EXCEPT !.pc = "cb_shot"]

\* step_callback from line 333 to the send of the progress event
Callback(r) ==
    /\ run[r].pc = "cb"
    /\ \/ /\ last_screenshot[KeyOf(r)] # "image"    \* KeyError / TypeError, line 370
          /\ Go(r, OnException(run[r]))
       \/ /\ last_screenshot[KeyOf(r)] = "image"    \* token_usage is None
          /\ Go(r, Checkpoint(run[r]))
       \/ /\ last_screenshot[KeyOf(r)] = "image"
          /\ ~InActiveTasks(active_tasks, KeyOf(r)) \* KeyError, line 395
          /\ Go(r, OnException(run[r]))
       \/ /\ last_screenshot[KeyOf(r)] = "image"
          /\ InActiveTasks(active_tasks, KeyOf(r))
          /\ Go(r, IF task_websockets[KeyOf(r)] /\ Connected(KeyOf(r))
                   THEN [run[r] EXCEPT !.pc = "cb_send"]
                   ELSE Checkpoint(run[r]))

\* send_agent_progress returns or raises (future.result())
CallbackSend(r) ==
    /\ run[r].pc = "cb_send"
    /\ \/ Go(r, OnWebSocketException(run[r]))
       \/ /\ Connected(KeyOf(r))
          /\ Go(r, Checkpoint(run[r]))

\* the next screenshot (lines 419-436); the callback returns; the agent goes
\* on to its next step, or agent.run returns and line 233 runs
CallbackShot(r) ==
    /\ run[r].pc = "cb_shot"
    /\ \/ Go(r, OnTimeout(run[r]))                  \* screenshot raises
       \/ /\ last_screenshot[KeyOf(r)] = "absent"   \* KeyError, line 435
          /\ Go(r, OnException(run[r]))
       \/ /\ last_screenshot[KeyOf(r)] # "absent"    \* the agent goes on
          /\ Advance(r, BeginStep(run[r], run[r].step + 1), active_tasks,
                     [last_screenshot EXCEPT ![KeyOf(r)] = "image"],
                     CountBegun(r))
       \/ /\ last_screenshot[KeyOf(r)] # "absent"    \* that was the final step
          /\ Advance(r, IF InActiveTasks(active_tasks, KeyOf(r))
                        THEN [run[r] EXCEPT !.pc = "finally"]
                        ELSE OnException(run[r]),           \* KeyError, line 233
                     SetCompleted(KeyOf(r)),
                     [last_screenshot EXCEPT ![KeyOf(r)] = "image"],
                     hist)

\* send_agent_error returns, or raises inside the except clause
RunnerSendError(r) ==
    /\ run[r].pc = "send_error"
    /\ \E o \in SendOutcomes(r) :
          Go(r, [run[r] EXCEPT !.pc = "finally", !.pending_exc = (o = "raise")])

\* send_agent_complete / send_vnc_url_unset return or raise
RunnerSendComplete(r) ==
    /\ run[r].pc = "send_complete"
    /\ \/ ProcExcept(r, run[r], active_tasks, last_screenshot, hist)
       \/ /\ "ok" \in SendOutcomes(r)
          /\ Finalize(r, run[r], active_tasks, last_screenshot, hist)
    /\ UNCHANGED <<conn, ret, active_task, archVars>>

\* release_sandbox at the end of the finally block gets the lock
RunnerRelease(r) ==
    /\ run[r].pc = "release"
    /\ ReleaseSandbox(KeyOf(r))
    /\ SetRun(r, Ended(run[r], IF run[r].pending_exc THEN "proc_except"
                               ELSE "done"))
    /\ hist' = [hist EXCEPT ![r].stale = InFlight(KeyOf(r))]
    /\ UNCHANGED <<conn, task_websockets, active_tasks, last_screenshot, ret,
                   active_task, archVars>>

\* release_sandbox in the except clause of _agent_processing gets the lock
RunnerProcExcept(r) ==
    /\ run[r].pc = "proc_except"
    /\ ReleaseSandbox(KeyOf(r))
    /\ SetRun(r, Ended(run[r], "aborted"))
    /\ UNCHANGED <<conn, task_websockets, active_tasks, last_screenshot, hist, ret, active_task, archVars>>

\* ---- ActiveTask.steps: step_callback and update_trace_step on one record
\* An AgentStep is held as its stepId and its step_evaluation. stepId is
\* str(memory_step.step_number) and is read back with int(): the number.
NoSteps == [steps |-> <<>>, step_number |-> 0]
StepEvaluations == {"like", "dislike", "neutral"}

\* ActiveTask.update_step(step), for int(step.stepId) >= 1
update_step(steps, step) ==
    IF step.stepId <= Len(steps) THEN [steps EXCEPT ![step.stepId] = step]
    ELSE Append(steps, step)

\* step_callback for the agent's next step: a step record is made and
\* stored only when memory_step.token_usage is not None
StepCallback(token_usage) ==
    /\ active_task.step_number < MaxStepNumber
    /\ Len(active_task.steps) < MaxStepRecords
    /\ active_task' =
          [step_number |-> active_task.step_number + 1,
           steps |-> IF token_usage
                     THEN update_step(active_task.steps,
                                      [stepId |-> active_task.step_number + 1,
                                       step_evaluation |-> "neutral"])
                     ELSE active_task.steps]
    /\ UNCHANGED <<conn, task_websockets, active_tasks, last_screenshot, run, hist,
                   poolVars, ret, archVars>>

\* update_trace_step(trace_id, step_id, step_evaluation) on the active task:
\* steps[int(step_id) - 1] gets the evaluation and is passed to update_step;
\* an index outside the list raises ValueError
update_trace_step(step_id, step_evaluation) ==
    /\ Len(active_task.steps) < MaxStepRecords
    /\ LET step_index == step_id - 1
           found == 0 <= step_index /\ step_index < Len(active_task.steps)
           evaluated == [active_task.steps EXCEPT
                            ![step_index + 1].step_evaluation = step_evaluation]
       IN active_task' =
             IF found
             THEN [active_task EXCEPT
                      !.steps = update_step(evaluated, evaluated[step_index + 1])]
             ELSE active_task
    /\ UNCHANGED <<conn, task_websockets, active_tasks, last_screenshot, run, hist,
                   poolVars, ret, archVars>>

\* ---------------------------------------------------------- ArchivalService
\* Strings are sequences of characters. A run of characters other than "-"
\* and "/" is written as one element of the sequence.

\* str(uuid4()): five groups of hexadecimal digits joined by "-"
uuid4(k) ==
    CASE k = "k1" -> <<"1a", "-", "1b", "-", "1c", "-", "1d", "-", "1e">>
      [] k = "k2" -> <<"2a", "-", "2b", "-", "2c", "-", "2d", "-", "2e">>
      [] OTHER -> <<"3a", "-", "3b", "-", "3c", "-", "3d", "-", "3e">>
\* model ids a client can send: with and without an organisation
ModelIds == {<<"m">>, <<"org", "/", "m">>}
ArchKeys == {KeyOrder[i] : i \in 1..MaxArchKeys}

\* model_id.replace("/", "-")
RECURSIVE replace(_)
replace(s) ==
    IF s = <<>> THEN <<>>
    ELSE <<IF Head(s) = "/" THEN "-" ELSE Head(s)>> \o replace(Tail(s))

\* ActiveTask.trace_path, below the data directory
trace_path(message_id, model_id) ==
    <<"trace", "-">> \o message_id \o <<"-">> \o replace(model_id)

\* str.split("-", maxsplit)
find(s) ==
    IF \E i \in 1..Len(s) : s[i] = "-"
    THEN CHOOSE i \in 1..Len(s) : s[i] = "-" /\ \A j \in 1..(i - 1) : s[j] # "-"
    ELSE 0
RECURSIVE split(_, _)
split(s, maxsplit) ==
    IF maxsplit = 0 \/ find(s) = 0 THEN <<s>>
    ELSE <<SubSeq(s, 1, find(s) - 1)>>
            \o split(SubSeq(s, find(s) + 1, Len(s)), maxsplit - 1)

\* f.name.startswith("trace-")
startswith_trace(s) == Len(s) >= 2 /\ s[1] = "trace" /\ s[2] = "-"

\* a directory that is not the trace directory of any task
trace_invalid == <<"trace", "-", "invalid">>
\* the directories the data directory can hold
Folders ==
    {trace_path(uuid4(k), m) : k \in ArchKeys, m \in ModelIds} \cup {trace_invalid}

NoTrace == [state |-> "unissued", model_id |-> <<>>]
NoSweep == [pc |-> "wait", todo |-> {}, cur |-> <<>>, verified |-> FALSE,
            failed |-> {}]
Live == {k \in ArchKeys : traces[k].state = "live"}

\* update_active_tasks(set(self.active_tasks.keys())): clear(), then one
\* write per key; the worker process reads the shared dict at any time
UpdateClear(live) ==
    /\ shared_active_tasks' = {}
    /\ updating' = live

\* process_user_task admits a task for key k with model m
ArchAdmit(k, m) ==
    /\ traces[k].state = "unissued"
    /\ updating = {}
    /\ traces' = [traces EXCEPT ![k] = [state |-> "live", model_id |-> m]]
    /\ UpdateClear(Live \cup {k})
    /\ UNCHANGED <<folders, archives, repo, sweep, procs, svc, poolVars, ret, orchVars>>

\* the loop of update_active_tasks writes one key
UpdateAdd(k) ==
    /\ k \in updating
    /\ shared_active_tasks' = shared_active_tasks \cup {uuid4(k)}
    /\ updating' = updating \ {k}
    /\ UNCHANGED <<traces, folders, archives, repo, sweep, procs, svc, poolVars, ret, orchVars>>

\* os.makedirs(trace_path) of _agent_processing, and every later write of
\* the task into its directory: the directory's mtime is now
WriteFolder(k) ==
    /\ traces[k].state = "live"
    /\ folders[trace_path(uuid4(k), traces[k].model_id)] # "new"
    /\ folders' = [folders EXCEPT
                      ![trace_path(uuid4(k), traces[k].model_id)] = "new"]
    /\ UNCHANGED <<traces, shared_active_tasks, updating, archives, repo, sweep,
                   procs, svc, poolVars, ret, orchVars>>

\* the finally block of _agent_runner removes the record of k
ArchRemove(k) ==
    /\ traces[k].state = "live"
    /\ updating = {}
    /\ traces' = [traces EXCEPT ![k].state = "gone"]
    /\ UpdateClear(Live \ {k})
    /\ UNCHANGED <<folders, archives, repo, sweep, procs, svc, poolVars, ret, orchVars>>

\* somebody else makes a directory in the data directory
MakeOther ==
    /\ folders[trace_invalid] = "absent"
    /\ folders' = [folders EXCEPT ![trace_invalid] = "new"]
    /\ UNCHANGED <<traces, shared_active_tasks, updating, archives, repo, sweep,
                   procs, svc, poolVars, ret, orchVars>>

\* time passes: the age of d reaches folder_age_threshold_minutes
FolderAges(d) ==
    /\ folders[d] = "new"
    /\ folders' = [folders EXCEPT ![d] = "old"]
    /\ UNCHANGED <<traces, shared_active_tasks, updating, archives, repo, sweep,
                   procs, svc, poolVars, ret, orchVars>>

\* ---- _process_old_folders, in the worker process
\* the listing of the data directory
trace_folders == {d \in Folders : folders[d] # "absent" /\ startswith_trace(d)}

SweepStart ==
    /\ sweep.pc = "wait"
    /\ sweep' = [NoSweep EXCEPT !.pc = "loop", !.todo = trace_folders]
    /\ UNCHANGED <<traces, shared_active_tasks, updating, folders, archives, repo,
                   procs, svc, poolVars, ret, orchVars>>

\* lines 248-270: what the sweep decides about folder d
parts(d) == split(d, 2)
trace_id(d) == parts(d)[2]
Decision(d) ==
    IF folders[d] = "absent" THEN "error"                   \* folder.stat() raises
    ELSE IF Len(parts(d)) < 2 THEN "unexpected_format"
    ELSE IF trace_id(d) \in shared_active_tasks THEN "active"
    ELSE IF folders[d] = "new" THEN "not_old_enough"
    ELSE "process"

\* one folder of the listing: the checks, and _compress_folder
SweepConsider(d) ==
    /\ sweep.pc = "loop"
    /\ d \in sweep.todo
    /\ IF Decision(d) = "process"
       THEN \/ /\ archives' = archives \cup {d}
               /\ sweep' = [sweep EXCEPT !.todo = @ \ {d}, !.pc = "upload",
                                         !.cur = d, !.verified = FALSE]
            \/ /\ archives' = archives                      \* returns None
               /\ sweep' = [sweep EXCEPT !.todo = @ \ {d},
                                         !.failed = @ \cup {d}]
       ELSE /\ archives' = archives
            /\ sweep' = [sweep EXCEPT !.todo = @ \ {d}]
    /\ UNCHANGED <<traces, shared_active_tasks, updating, folders, repo,
                   procs, svc, poolVars, ret, orchVars>>

\* _upload_to_huggingface returns True, or False and the archive is unlinked
SweepUpload_KeepsArchive ==
    /\ sweep.pc = "upload"
    /\ \/ /\ repo' = repo \cup {sweep.cur}
          /\ sweep' = [sweep EXCEPT !.pc = "verify"]
       \/ /\ repo' = repo
          /\ sweep' = [sweep EXCEPT !.pc = "loop", !.failed = @ \cup {sweep.cur}]
    /\ UNCHANGED <<traces, shared_active_tasks, updating, folders, archives,
                   procs, svc, poolVars, ret, orchVars>>
SweepUpload ==
    /\ sweep.pc = "upload"
    /\ \/ /\ repo' = repo \cup {sweep.cur}
          /\ sweep' = [sweep EXCEPT !.pc = "verify"]
          /\ UNCHANGED archives
       \/ /\ archives' = archives \ {sweep.cur}
          /\ sweep' = [sweep EXCEPT !.pc = "loop", !.failed = @ \cup {sweep.cur}]
          /\ UNCHANGED repo
    /\ UNCHANGED <<traces, shared_active_tasks, updating, folders,
                   procs, svc, poolVars, ret, orchVars>>

\* "if verified:" of the sweep
Verified_Ignored(v) == TRUE
Verified(v) == v

\* _verify_file_in_repo: True only for a file that is in the repository
SweepVerify ==
    /\ sweep.pc = "verify"
    /\ \E v \in (IF sweep.cur \in repo THEN BOOLEAN ELSE {FALSE}) :
          sweep' = IF Verified(v)
                   THEN [sweep EXCEPT !.pc = "delete", !.verified = v]
                   ELSE [sweep EXCEPT !.pc = "loop",
                                      !.failed = @ \cup {sweep.cur}]
    /\ UNCHANGED <<traces, shared_active_tasks, updating, folders, archives, repo,
                   procs, svc, poolVars, ret, orchVars>>

\* lines 302-311: rmtree of the folder, unlink of the archive; or rmtree
\* raises into "except Exception" of the loop body: the folder is still
\* there (as it was, or written to just now) and so is the archive
SweepDelete_Halts ==
    /\ sweep.pc = "delete"
    /\ \/ /\ folders' = [folders EXCEPT ![sweep.cur] = "absent"]
          /\ archives' = archives \ {sweep.cur}
          /\ sweep' = [sweep EXCEPT !.pc = "loop"]
       \/ /\ folders[sweep.cur] # "absent"
          /\ \E a \in {folders[sweep.cur], "new"} :
                folders' = [folders EXCEPT ![sweep.cur] = a]
          /\ archives' = archives
          /\ sweep' = [sweep EXCEPT !.pc = "wait", !.failed = @ \cup {sweep.cur}]
    /\ UNCHANGED <<traces, shared_active_tasks, updating, repo,
                   procs, svc, poolVars, ret, orchVars>>
SweepDelete ==
    /\ sweep.pc = "delete"
    /\ \/ /\ folders' = [folders EXCEPT ![sweep.cur] = "absent"]
          /\ archives' = archives \ {sweep.cur}
          /\ sweep' = [sweep EXCEPT !.pc = "loop"]
       \/ /\ folders[sweep.cur] # "absent"
          /\ \E a \in {folders[sweep.cur], "new"} :
                folders' = [folders EXCEPT ![sweep.cur] = a]
          /\ archives' = archives
          /\ sweep' = [sweep EXCEPT !.pc = "loop", !.failed = @ \cup {sweep.cur}]
    /\ UNCHANGED <<traces, shared_active_tasks, updating, repo,
                   procs, svc, poolVars, ret, orchVars>>

\* the listing is exhausted: back to the wait of the worker loop
SweepEnd ==
    /\ sweep.pc = "loop"
    /\ sweep.todo = {}
    /\ sweep' = [sweep EXCEPT !.pc = "wait"]
    /\ UNCHANGED <<traces, shared_active_tasks, updating, folders, archives, repo,
                   procs, svc, poolVars, ret, orchVars>>

\* ------------------------------------- worker-hosting processes (app.py)
\* Each process constructs its own AgentService, and with it its own
\* ArchivalService, whose _active_tasks is a dict of that process's manager.
Procs == {"w1", "w2"}
\* pc: "down" not constructed, "init" between _should_start_archival_service
\* and start(), "up" serving, "cleanup" between stop() and the release of the lock
NoProc == [pc |-> "down", lock_file |-> FALSE, process |-> FALSE,
           active_tasks |-> {}, shared |-> {}]

\* fcntl.flock(LOCK_EX | LOCK_NB) succeeds when no open file holds the lock
LockFree_Shared == TRUE
LockFree == \A q \in Procs : ~procs[q].lock_file

\* AgentService.__init__ up to the return of _should_start_archival_service:
\* open or flock raise (flock does when the lock is held), or the lock is
\* taken and the pid written, or the write raises and the file is closed
ShouldStart(p) ==
    /\ procs[p].pc = "down"
    /\ \/ procs' = [procs EXCEPT ![p].pc = "up"]
       \/ /\ LockFree
          /\ procs' = [procs EXCEPT ![p].pc = "init", ![p].lock_file = TRUE]
    /\ UNCHANGED <<sweepVars, svc, poolVars, ret, orchVars>>

\* archival_service.start(): the Archival Worker process is started
StartWorker(p) ==
    /\ procs[p].pc = "init"
    /\ procs' = [procs EXCEPT ![p].pc = "up", ![p].process = TRUE]
    /\ UNCHANGED <<sweepVars, svc, poolVars, ret, orchVars>>

\* _update_archival_active_tasks after the registry of p became at
UpdateArchival(p, at) ==
    procs' = [procs EXCEPT ![p].active_tasks = at,
                           ![p].shared = IF procs[p].process THEN at ELSE @]

\* process_user_task of process p admits key k (a key is issued once)
ProcAdmit(p, k) ==
    /\ procs[p].pc = "up"
    /\ \A q \in Procs : k \notin procs[q].active_tasks
    /\ Cardinality(procs[p].active_tasks) < max_sandboxes
    /\ UpdateArchival(p, procs[p].active_tasks \cup {k})
    /\ UNCHANGED <<sweepVars, svc, poolVars, ret, orchVars>>

\* the finally block of _agent_runner of process p removes the record of k
ProcRemove(p, k) ==
    /\ procs[p].pc = "up"
    /\ k \in procs[p].active_tasks
    /\ UpdateArchival(p, procs[p].active_tasks \ {k})
    /\ UNCHANGED <<sweepVars, svc, poolVars, ret, orchVars>>

\* cleanup(): archival_service.stop() has returned, the worker is dead
CleanupStop(p) ==
    /\ procs[p].pc = "up"
    /\ procs' = [procs EXCEPT ![p].pc = "cleanup", ![p].process = FALSE]
    /\ UNCHANGED <<sweepVars, svc, poolVars, ret, orchVars>>

\* cleanup(): flock(LOCK_UN) and close; the process ends
CleanupUnlock(p) ==
    /\ procs[p].pc = "cleanup"
    /\ procs' = [procs EXCEPT ![p] = NoProc]
    /\ UNCHANGED <<sweepVars, svc, poolVars, ret, orchVars>>

\* ------------------- ArchivalService.stop and _archival_worker_process
\* process: "none" self._process is None, "set" it is a Process object
\* alive: the worker process runs (Process.is_alive())
\* spc: position of stop(): "idle" not in it, "join1" in join(timeout),
\*      "timeout1" that join returned with the process running, "join2" in
\*      join(2.0) after terminate(), "timeout2", "join3" in join() after kill()
\* stage: the last means stop() has used: "event", "terminate", "kill"
\* sigterm, sigkill: the signal was sent and is not delivered yet
\* wpc: position of the worker: "boot" before its signal handlers are
\*      registered, "top" at the while test, "tick" in the for loop with
\*      ticks iterations left, "broke" out of it through break, "check" out
\*      of it at its end, "sweep" in _process_old_folders, "exited"
\* outcome: how the last call of _process_old_folders ended
NoSvc == [process |-> "none", alive |-> FALSE, stop_event |-> FALSE,
          spc |-> "idle", stage |-> "none", sigterm |-> FALSE,
          sigkill |-> FALSE, wpc |-> "off", ticks |-> 0, outcome |-> "none"]

\* start(): a new worker process with the stop event cleared
SvcStart ==
    /\ svc.spc = "idle"
    /\ ~(svc.process = "set" /\ svc.alive)
    /\ svc' = [NoSvc EXCEPT !.process = "set", !.alive = TRUE, !.wpc = "boot"]
    /\ UNCHANGED <<sweepVars, procs, poolVars, ret, orchVars>>

\* signal.signal(SIGTERM, ...), signal.signal(SIGINT, ...), HfApi(...)
WorkerBoot ==
    /\ svc.alive /\ svc.wpc = "boot"
    /\ svc' = [svc EXCEPT !.wpc = "top"]
    /\ UNCHANGED <<sweepVars, procs, poolVars, ret, orchVars>>

\* while not stop_event.is_set(): enter the for loop, or leave and return
WorkerTop ==
    /\ svc.alive /\ svc.wpc = "top"
    /\ svc' = IF svc.stop_event
              THEN [svc EXCEPT !.wpc = "exited", !.alive = FALSE]
              ELSE [svc EXCEPT !.wpc = "tick", !.ticks = MaxTicks]
    /\ UNCHANGED <<sweepVars, procs, poolVars, ret, orchVars>>

\* one iteration of the for loop: break on the stop event, else sleep(1)
WorkerTick ==
    /\ svc.alive /\ svc.wpc = "tick"
    /\ svc' = IF svc.ticks = 0 THEN [svc EXCEPT !.wpc = "check"]
              ELSE IF svc.stop_event THEN [svc EXCEPT !.wpc = "broke", !.ticks = 0]
              ELSE [svc EXCEPT !.ticks = @ - 1]
    /\ UNCHANGED <<sweepVars, procs, poolVars, ret, orchVars>>

\* "if stop_event.is_set(): break" after the for loop
LeavesLoop_NoTest == FALSE
LeavesLoop == svc.stop_event

\* after the for loop: leave the while loop and return, or call
\* _process_old_folders
WorkerCheck ==
    /\ svc.alive /\ svc.wpc \in {"broke", "check"}
    /\ svc' = IF LeavesLoop
              THEN [svc EXCEPT !.wpc = "exited", !.alive = FALSE]
              ELSE [svc EXCEPT !.wpc = "sweep"]
    /\ UNCHANGED <<sweepVars, procs, poolVars, ret, orchVars>>

\* _process_old_folders returns, or raises into "except Exception"
WorkerSweepEnds(o) ==
    /\ svc.alive /\ svc.wpc = "sweep"
    /\ svc' = [svc EXCEPT !.wpc = "top", !.outcome = o]
    /\ UNCHANGED <<sweepVars, procs, poolVars, ret, orchVars>>

\* SIGTERM reaches the worker: signal_handler sets the stop event; before
\* the handler is registered the process either ends or goes on. A signal
\* sent to a process that has ended is lost.
DeliverTerm ==
    /\ svc.sigterm
    /\ \/ /\ svc.alive /\ svc.wpc # "boot"
          /\ svc' = [svc EXCEPT !.sigterm = FALSE, !.stop_event = TRUE]
       \/ /\ svc.alive /\ svc.wpc = "boot"
          /\ \/ svc' = [svc EXCEPT !.sigterm = FALSE, !.wpc = "exited",
                                   !.alive = FALSE]
             \/ svc' = [svc EXCEPT !.sigterm = FALSE]
       \/ /\ ~svc.alive
          /\ svc' = [svc EXCEPT !.sigterm = FALSE]
    /\ UNCHANGED <<sweepVars, procs, poolVars, ret, orchVars>>

\* SIGKILL reaches the worker
DeliverKill ==
    /\ svc.sigkill
    /\ svc' = [svc EXCEPT !.sigkill = FALSE, !.wpc = "exited", !.alive = FALSE]
    /\ UNCHANGED <<sweepVars, procs, poolVars, ret, orchVars>>

\* stop() on a running worker: set the stop event and join(timeout)
StopCall ==
    /\ svc.spc = "idle"
    /\ svc.process = "set" /\ svc.alive
    /\ svc' = [svc EXCEPT !.stop_event = TRUE, !.spc = "join1", !.stage = "event"]
    /\ UNCHANGED <<sweepVars, procs, poolVars, ret, orchVars>>

\* a join returns because the process has ended; is_alive() is false and
\* stop() returns
JoinReturns ==
    /\ svc.spc \in {"join1", "join2", "join3"}
    /\ ~svc.alive
    /\ svc' = [svc EXCEPT !.spc = "idle", !.process = "none"]
    /\ UNCHANGED <<sweepVars, procs, poolVars, ret, orchVars>>

\* join(timeout) or join(2.0) returns because the time is over
JoinTimesOut ==
    /\ svc.spc \in {"join1", "join2"}
    /\ svc.alive
    /\ svc' = [svc EXCEPT !.spc = IF svc.spc = "join1" THEN "timeout1"
                                  ELSE "timeout2"]
    /\ UNCHANGED <<sweepVars, procs, poolVars, ret, orchVars>>

\* "if self._process.is_alive()": terminate() after the first join, kill()
\* after the second, or return
Escalate ==
    /\ svc.spc \in {"timeout1", "timeout2"}
    /\ svc' = IF ~svc.alive THEN [svc EXCEPT !.spc = "idle", !.process = "none"]
              ELSE IF svc.spc = "timeout1"
              THEN [svc EXCEPT !.sigterm = TRUE, !.spc = "join2",
                               !.stage = "terminate"]
              ELSE [svc EXCEPT !.sigkill = TRUE, !.spc = "join3", !.stage = "kill"]
    /\ UNCHANGED <<sweepVars, procs, poolVars, ret, orchVars>>

PoolInit ==
    /\ sandboxes = [k \in Keys |-> NoHandle]
    /\ sandbox_metadata = [k \in Keys |-> NoMeta]
    /\ sandbox_lock = 0
    /\ prov = [p \in Provs |-> NoProv]
    /\ kills = [p \in Provs |-> 0]
    /\ ret = NoRet

OrchInit ==
    /\ conn = [k \in Keys |-> "unissued"]
    /\ task_websockets = [k \in Keys |-> FALSE]
    /\ active_tasks = [k \in Keys |-> NoTask]
    /\ last_screenshot = [k \in Keys |-> "absent"]
    /\ run = [r \in Runs |-> NoRun]
    /\ hist = [r \in Runs |-> NoHist]
    /\ active_task = NoSteps

ArchInit ==
    /\ traces = [k \in ArchKeys |-> NoTrace]
    /\ shared_active_tasks = {}
    /\ updating = {}
    /\ folders = [d \in Folders |-> "absent"]
    /\ archives = {}
    /\ repo = {}
    /\ sweep = NoSweep
    /\ procs = [p \in Procs |-> NoProc]
    /\ svc = NoSvc

Init == PoolInit /\ OrchInit /\ ArchInit

Background ==
    \E p \in Provs :
        \/ ProvKillExpired(p)
        \/ ProvSucceed(p)
        \/ ProvOrphanKilled(p)
        \/ ProvFail(p)

PoolNext ==
    \/ \E k \in Keys : PoolAcquire(k)
    \/ \E k \in Keys : PoolAcquireRegister(k)
    \/ PoolAcquireReturn
    \/ \E k \in Keys : PoolRelease(k)
    \/ SweepStuck
    \/ Drain
    \/ \E k \in Keys : GrowOlder(k)
    \/ Background

PoolSpec == Init /\ [][PoolNext]_vars

Runner ==
    \E r \in Runs :
        \/ RunnerStart(r)
        \/ RunnerSendStart(r)
        \/ RunnerAcquire(r)
        \/ RunnerAcquire2(r)
        \/ RunnerSendVnc(r)
        \/ AgentStep(r)
        \/ Callback(r)
        \/ CallbackSend(r)
        \/ CallbackShot(r)
        \/ RunnerSendError(r)
        \/ RunnerSendComplete(r)
        \/ RunnerRelease(r)
        \/ RunnerProcExcept(r)

Next ==
    \/ \E k \in Keys : Connect(k)
    \/ \E k \in Keys : BeginTask(k)
    \/ \E k \in Keys : StopTask(k)
    \/ \E k \in Keys : Close(k)
    \/ \E k \in Keys : CloseRelease(k)
    \/ \E k \in Keys : CloseAgain(k)
    \/ Runner
    \/ Background
    \/ SweepStuck
    \/ \E k \in Keys : GrowOlder(k)

Spec == Init /\ [][Next]_vars

\* Two connections, so that the admission ceiling is reached. Slots do not
\* age here, so no acquire_sandbox call hands an expired sandbox to a
\* provisioning task.
AdmitBackground ==
    \E p \in Provs :
        \/ ProvSucceed(p)
        \/ ProvOrphanKilled(p)
        \/ ProvFail(p)

AdmitNext ==
    \/ \E k \in Keys : AdmitConnect(k)
    \/ \E k \in Keys : BeginTask(k)
    \/ \E k \in Keys : BeginRejected(k)
    \/ \E k \in Keys : StopTask(k)
    \/ \E k \in Keys : Close(k)
    \/ \E k \in Keys : CloseRelease(k)
    \/ Runner
    \/ AdmitBackground

AdmitSpec == Init /\ [][AdmitNext]_vars

ArchNext ==
    \/ \E k \in ArchKeys, m \in ModelIds : ArchAdmit(k, m)
    \/ \E k \in ArchKeys : UpdateAdd(k)
    \/ \E k \in ArchKeys : WriteFolder(k)
    \/ \E k \in ArchKeys : ArchRemove(k)
    \/ MakeOther
    \/ \E d \in Folders : FolderAges(d)
    \/ SweepStart
    \/ \E d \in Folders : SweepConsider(d)
    \/ SweepUpload
    \/ SweepVerify
    \/ SweepDelete
    \/ SweepEnd

ArchSpec == Init /\ [][ArchNext]_vars

ProcNext ==
    \/ \E p \in Procs : ShouldStart(p)
    \/ \E p \in Procs : StartWorker(p)
    \/ \E p \in Procs, k \in Keys : ProcAdmit(p, k)
    \/ \E p \in Procs, k \in Keys : ProcRemove(p, k)
    \/ \E p \in Procs : CleanupStop(p)
    \/ \E p \in Procs : CleanupUnlock(p)

ProcSpec == Init /\ [][ProcNext]_vars

StopNext ==
    \/ SvcStart
    \/ WorkerBoot
    \/ WorkerTop
    \/ WorkerTick
    \/ WorkerCheck
    \/ \E o \in {"returned", "raised"} : WorkerSweepEnds(o)
    \/ DeliverTerm
    \/ DeliverKill
    \/ StopCall
    \/ JoinReturns
    \/ JoinTimesOut
    \/ Escalate

StopSpec == Init /\ [][StopNext]_vars

\* The Archival Worker seen in either of its two descriptions: the steps of
\* one call of _process_old_folders (ArchNext), or its main loop around
\* that call (StopNext).
CycleNext ==
    \/ svc = NoSvc /\ ArchNext
    \/ /\ sweep = NoSweep
       /\ \A d \in Folders : folders[d] = "absent"
       /\ \A k \in ArchKeys : traces[k] = NoTrace
       /\ StopNext

CycleSpec == Init /\ [][CycleNext]_vars

\* One Task Record's step list under step completions and evaluation updates.
StepNext ==
    \/ \E token_usage \in BOOLEAN : StepCallback(token_usage)
    \/ \E step_id \in 0..(MaxStepNumber + 1) :
          \E step_evaluation \in StepEvaluations :
             update_trace_step(step_id, step_evaluation)

StepSpec == Init /\ [][StepNext]_vars

\* One connection and its one execution loop, next to callers of the pool
\* for the other keys (the sandboxes of other connections), so that the
\* loop's attempts meet a pool that is full.
LoopNext ==
    \/ \E k \in Keys : Connect(k)
    \/ \E k \in Keys : FreeRuns = Runs /\ BeginTask(k)
    \/ Runner
    \/ Background
    \/ \E k \in Keys \ {KeyOrder[1]} : PoolAcquireRegister(k)
    \/ PoolAcquireReturn
    \/ \E k \in Keys \ {KeyOrder[1]} : PoolRelease(k)

LoopSpec == Init /\ [][LoopNext]_vars

\* ------------------------------------------------------------------ claims
\* slots in state Creating or Ready
Slots == {k \in Keys : sandbox_metadata[k].state \in {"creating", "ready"}}

\* C1: in every reachable state of the pool the number of slots in state
\* Creating plus the number in state Ready is at most max_sandboxes (and so
\* is the count the capacity test itself uses).
C1_Capacity ==
    /\ Cardinality(Slots) <= max_sandboxes
    /\ SlotCount(sandboxes, sandbox_metadata) <= max_sandboxes
\* the pool is full and an acquire for one more key has been turned away
C1_Witness ==
    /\ Cardinality(Slots) = max_sandboxes
    /\ ret.op = "acquire"
    /\ ret.state = "max_sandboxes_reached"
    /\ ret.key \notin Slots

\* C8: acquire(k) called while the slot of k is Creating returns Creating,
\* changes nothing in the pool and starts no provisioning task; a step
\* registers a Creating slot for k exactly when it starts one provisioning
\* task, and that task is for k.
Registers(k) ==
    /\ sandbox_metadata'[k].state = "creating"
    /\ sandbox_metadata[k].state # "creating"
Starts(p) == prov[p].pc = "unused" /\ prov'[p].pc # "unused"
C8_AcquireWhileCreating ==
    [][/\ \A k \in Keys :
             (sandbox_metadata[k].state = "creating"
                /\ (PoolAcquire(k) \/ PoolAcquireRegister(k)))
             => /\ UNCHANGED poolVars
                /\ ret'.op = "acquire" /\ ret'.key = k
                /\ ret'.state = "creating" /\ ret'.handle = NoHandle
       /\ \A k \in Keys :
             Registers(k) =>
                Cardinality({p \in Provs : Starts(p) /\ prov'[p].key = k}) = 1
       /\ \A p \in Provs :
             Starts(p) => /\ Registers(prov'[p].key)
                          /\ \A q \in Provs : Starts(q) => q = p]_vars
\* acquire(k) has returned Creating for a slot that another call registered
\* and whose one provisioning task is still at work
C8_Witness ==
    /\ ret.op = "acquire"
    /\ ret.state = "creating"
    /\ sandbox_metadata[ret.key].state = "creating"
    /\ Cardinality({p \in Provs : prov[p].key = ret.key
                                    /\ prov[p].pc = "creating"}) = 1

\* C9: release(k) on a key without a slot returns and leaves the pool
\* unchanged; after any release(k) the key has no slot, so that a second
\* release(k) in a row changes nothing more; and no handle is torn down more
\* than once.
HasSlot(k) == InSandboxes(sandboxes, k) \/ InMetadata(sandbox_metadata, k)
C9_ReleaseIdempotent ==
    [][\A k \in Keys :
          PoolRelease(k) =>
             /\ ~HasSlot(k) => UNCHANGED poolVars
             /\ ~InSandboxes(sandboxes', k)
             /\ ~InMetadata(sandbox_metadata', k)
             /\ \A h \in Provs : kills'[h] <= 1]_vars
\* release(k) twice in a row: the first found a handle, the second nothing,
\* and the handle has been torn down once
C9_Witness ==
    /\ ret.op = "release"
    /\ ret.n = 2
    /\ ret.state = "no_slot"
    /\ ret.handle # NoHandle
    /\ kills[ret.handle] = 1

\* C2: a sweep deletes a directory only in its delete step for that
\* directory, after the verification of the uploaded archive returned true
\* in the same sweep; a directory whose compression, upload or verification
\* failed in the sweep still exists.
Deleted(d) == folders[d] # "absent" /\ folders'[d] = "absent"
C2_DeleteOnlyVerified ==
    [][/\ \A d \in Folders :
             Deleted(d) => /\ sweep.pc = "delete"
                           /\ sweep.cur = d
                           /\ sweep.verified
                           /\ d \in repo
       /\ \A d \in sweep'.failed : folders'[d] # "absent"]_vars
\* one sweep has deleted a verified directory and kept one that failed
C2_Witness ==
    /\ sweep.pc = "loop"
    /\ sweep.todo = {}
    /\ \E d \in Folders : folders[d] = "absent" /\ d \in repo
                             /\ d \notin archives
    /\ \E d \in sweep.failed : folders[d] = "old"

\* C3: when the sweep considers the directory trace-{key}-{model} of an
\* issued key that is in the live-task set, it does not compress, upload or
\* delete it: it passes on to the next directory.
C3_LiveFolderSkipped ==
    [][\A k \in ArchKeys, m \in ModelIds :
          (uuid4(k) \in shared_active_tasks
             /\ SweepConsider(trace_path(uuid4(k), m)))
          => /\ sweep'.pc = "loop"
             /\ trace_path(uuid4(k), m) \notin sweep'.failed
             /\ UNCHANGED <<folders, archives, repo>>]_vars
\* the directory of a task whose key is in the live-task set is gone
C3_LiveFolderDeleted ==
    \E k \in ArchKeys :
        /\ traces[k].state = "live"
        /\ updating = {}
        /\ uuid4(k) \in shared_active_tasks
        /\ sweep.pc = "loop"
        /\ sweep.cur = trace_path(uuid4(k), traces[k].model_id)
        /\ folders[sweep.cur] = "absent"
        /\ sweep.cur \in repo

\* run r has returned or raised
RunOver(r) == run[r].pc \in {"done", "aborted"}

\* C4: for every Task Record admitted by process_user_task a terminal state
\* is recorded, exactly once: when the execution loop started for the
\* record is over, one terminal state has been recorded on that record.
C4_TerminalStateRecorded ==
    \A r \in Runs : /\ hist[r].finals <= 1
                     /\ RunOver(r) => hist[r].finals = 1
\* a second process_user_task replaced the record of the first, whose loop
\* is over and which never got a terminal state
C4_RecordReplaced ==
    /\ run[1].pc = "done"
    /\ hist[1].finals = 0
    /\ hist[2].finals = 1

\* C5: when the finalization of an execution loop completes the pool holds
\* no slot for the loop's key, and a provisioning task that was at work for
\* the key at that time never installs its instance as a Ready slot.
C5_NoSlotAfterFinalization ==
    [][\A r \in Runs :
          /\ (run[r].pc # "done" /\ run'[r].pc = "done")
                => /\ ~InSandboxes(sandboxes', run'[r].key)
                   /\ ~InMetadata(sandbox_metadata', run'[r].key)
          /\ \A p \in hist[r].stale : \A k \in Keys : sandboxes'[k] # p]_vars
\* the instance of a provisioning task that was at work when the loop's
\* finalization completed is the Ready slot of the key
C5_StaleInstalled ==
    \E r \in Runs : \E p \in hist[r].stale :
        /\ run[r].pc = "done"
        /\ sandboxes[run[r].key] = p
        /\ sandbox_metadata[run[r].key].state = "ready"

\* C6: however the execution of an admitted task ends, its Task Record is
\* removed from the Registry: once the loop is over, the record admitted
\* for it is not in active_tasks.
C6_RecordRemoved ==
    \A r \in Runs : RunOver(r) => active_tasks[run[r].key].rid # r
\* the loop raised before _agent_runner: sandbox released, record left behind
C6_RecordLeft ==
    \E r \in Runs :
        /\ run[r].pc = "aborted"
        /\ active_tasks[run[r].key].rid = r
        /\ ~HasSlot(run[r].key)

\* C7: a loop that was running when the completed flag was set by stop
\* begins at most one more step before it leaves the loop.
C7_StopsAtCheckpoint ==
    \A r \in Runs : hist[r].begun <= 1
\* a loop stopped while running has left at a checkpoint
C7_Stopped ==
    \E r \in Runs :
        /\ hist[r].flagged
        /\ run[r].pc = "send_complete"
        /\ run[r].final_state = "stopped"

\* C10: closing a connection releases the slot of its key, with or without
\* a Task Record, and sets the completed flag of the record if there is
\* one; after a close that came before any process_user_task the key has no
\* slot and no record; a second close changes nothing.
NeverBegun(k) == \A r \in Runs : run[r].key # k
C10_CloseReleases ==
    [][\A k \in Keys :
          /\ (Close(k) /\ task_websockets[k])
                => /\ sandbox_lock = 0 => /\ ~InSandboxes(sandboxes', k)
                                           /\ ~InMetadata(sandbox_metadata', k)
                   /\ InActiveTasks(active_tasks, k) => active_tasks'[k].completed
          /\ CloseRelease(k)
                => /\ ~InSandboxes(sandboxes', k)
                   /\ ~InMetadata(sandbox_metadata', k)
          /\ (conn'[k] \in {"closed", "reclosed"} /\ NeverBegun(k))
                => /\ ~InSandboxes(sandboxes', k)
                   /\ ~InMetadata(sandbox_metadata', k)
                   /\ ~InActiveTasks(active_tasks', k)
          /\ CloseAgain(k)
                => UNCHANGED <<poolVars, task_websockets, active_tasks,
                               last_screenshot, run, hist>>]_vars
\* the connection closed before any process_user_task, while the sandbox
\* registered at connect time was still being provisioned
C10_Witness ==
    \E k \in Keys :
        /\ conn[k] = "reclosed"
        /\ NeverBegun(k)
        /\ \E p \in Provs : prov[p].key = k /\ prov[p].pc = "creating"
        /\ ~HasSlot(k)

\* ---- C11
\* the keys that have a Task Record, and the loops a step starts
Records == {k \in Keys : active_tasks[k] # NoTask}
Started == {r \in Runs : run[r].pc = "unused" /\ run'[r].pc = "start"}
\* the keys whose record a step creates or replaces
Admitted == {k \in Keys : /\ active_tasks'[k] # NoTask
                          /\ active_tasks'[k].rid # active_tasks[k].rid}
RejectionReported(k) ==
    ret' = [NoRet EXCEPT !.op = "begin", !.key = k,
                         !.state = "max_sandboxes_reached"]

Loops(k) ==
    {r \in Runs : run[r].key = k /\ run[r].pc \notin {"unused", "done", "aborted"}}

\* C12: at any time at most one execution loop is running for a task key,
\* also when begin is submitted twice for the key before the first run has
\* finalized.
C12_OneLoopPerKey == \A k \in Keys : Cardinality(Loops(k)) <= 1

\* two loops of one key are both in the middle of a step
C12_TwoLoops ==
    \E k \in Keys : \E r1, r2 \in Loops(k) :
        r1 # r2 /\ run[r1].pc = "step" /\ run[r2].pc = "step"

\* ---- C13
\* the slot of k is within its reuse window, or past it (a handle is held)
Fresh(k) ==
    /\ sandbox_metadata[k].state = "ready"
    /\ sandbox_metadata[k].age = "under_timeout"
Expired(k) == InSandboxes(sandboxes, k) /\ ~Fresh(k)
\* Ready slots (a handle is held), the expired slot of k taken out, plus
\* Creating slots fill the pool
FullWithout(k) ==
    Cardinality({j \in Keys : InSandboxes(sandboxes, j)} \ {j \in {k} : Expired(j)})
      + Cardinality({j \in Keys : sandbox_metadata[j].state = "creating"})
        >= max_sandboxes
\* a call of acquire(k) that returns CapacityExceeded
Rejected(k) == PoolAcquire(k) /\ ret'.state = "max_sandboxes_reached"
AcquireCalled(k) == PoolAcquire(k) \/ PoolAcquireRegister(k)

\* C13 as stated: acquire(k) returns CapacityExceeded exactly when, the
\* expired slot of k detached, Creating plus Ready slots are at or above
\* capacity.
C13_ExactlyWhenFull ==
    [][\A k \in Keys : AcquireCalled(k) => (Rejected(k) <=> FullWithout(k))]_vars

\* C13 amended: acquire(k) for a key that holds neither a Creating slot nor
\* a Ready slot within its reuse window returns CapacityExceeded exactly when,
\* the expired slot of k detached, Creating plus Ready slots are at or above
\* capacity (a key that holds such a slot is never turned away); a call that
\* returns CapacityExceeded registers no slot for k, starts no provisioning
\* and leaves the slots of all other keys unchanged.
C13_CapacityExceeded ==
    [][\A k \in Keys :
          AcquireCalled(k) =>
             /\ Rejected(k) <=>
                   /\ FullWithout(k)
                   /\ sandbox_metadata[k].state # "creating"
                   /\ ~Fresh(k)
             /\ Rejected(k) =>
                   /\ sandbox_metadata'[k].state \notin {"creating", "ready"}
                   /\ ~InSandboxes(sandboxes', k)
                   /\ prov' = prov
                   /\ \A j \in Keys \ {k} :
                         /\ sandboxes'[j] = sandboxes[j]
                         /\ sandbox_metadata'[j] = sandbox_metadata[j]]_vars

\* acquire(k) was turned away while the other keys fill the pool, one of
\* them still Creating
C13_Witness ==
    /\ ret.op = "acquire"
    /\ ret.state = "max_sandboxes_reached"
    /\ Cardinality(Slots \ {ret.key}) = max_sandboxes
    /\ \E j \in Slots : sandbox_metadata[j].state = "creating"
    /\ sandbox_metadata[ret.key].state = "none"

\* ---- C14
\* C14: every update of the live-task set reaches the worker as a single
\* replacement: whenever the set the worker can read changes, it becomes the
\* whole set of live keys that was published, never the empty set or a part
\* of it while tasks are live.
C14_SingleReplacement ==
    [][shared_active_tasks' # shared_active_tasks
          => shared_active_tasks' = {uuid4(k) : k \in Live'}]_vars

\* a sweep is under way and the set the worker reads is empty, although two
\* tasks are live, one of them published in full before this update began
C14_EmptyWhileLive ==
    /\ Cardinality(Live) = 2
    /\ shared_active_tasks = {}
    /\ updating = Live
    /\ sweep.pc # "wait"

\* ---- C15
\* C15: after every admission and removal in any serving process, whether or
\* not it started the Archival Worker, the live-task set the worker reads
\* (the dict of the process that started it) holds the key of every Task
\* Record in that process's registry.
C15_WorkerSeesEveryTask ==
    \A o, p \in Procs :
        (procs[o].process /\ procs[p].pc = "up")
            => procs[p].active_tasks \subseteq procs[o].shared

\* a process that lost the lock has a live task the running worker cannot see
C15_TaskUnseen ==
    \E o, p \in Procs :
        /\ o # p
        /\ procs[o].process /\ procs[o].lock_file
        /\ procs[p].pc = "up" /\ ~procs[p].lock_file
        /\ procs[p].active_tasks # {}
        /\ procs[p].active_tasks \cap procs[o].shared = {}
        /\ procs[p].shared = {}

\* ---- C16
\* C16: at most one process holds the lock, only a process that holds it has
\* an Archival Worker, so at most one worker runs at any time; a process
\* constructed while another holds the lock comes up serving without the
\* lock and without a worker.
C16_OneArchivalWorker ==
    [][/\ Cardinality({p \in Procs : procs'[p].lock_file}) <= 1
       /\ Cardinality({p \in Procs : procs'[p].process}) <= 1
       /\ \A p \in Procs : procs'[p].process => procs'[p].lock_file
       /\ \A p \in Procs :
             (/\ procs[p].pc = "down" /\ procs'[p].pc # "down"
              /\ \E q \in Procs \ {p} : procs[q].lock_file)
             => /\ procs'[p].pc = "up"
                /\ ~procs'[p].lock_file
                /\ ~procs'[p].process]_vars

\* one process holds the lock and runs the worker, the other one is serving
\* with neither
C16_Witness ==
    \E p, q \in Procs :
        /\ procs[p].lock_file /\ procs[p].process /\ procs[p].pc = "up"
        /\ procs[q].pc = "up" /\ ~procs[q].lock_file /\ ~procs[q].process

\* ---- C17
\* C17: acquire(k) that finds a Ready slot of k past its reuse window is not
\* turned away: it takes the handle out of the pool, registers a new Creating
\* slot for k and hands the old handle to the provisioning task it starts,
\* whose first step tears the handle down.
C17_ExpiredSlotReplaced ==
    [][/\ \A k \in Keys :
             (AcquireCalled(k) /\ InSandboxes(sandboxes, k)
                /\ sandbox_metadata[k].state = "ready"
                /\ sandbox_metadata[k].age # "under_timeout")
             => /\ ~Rejected(k)
                /\ sandbox_metadata'[k] = NewMeta
                /\ ~InSandboxes(sandboxes', k)
                /\ \E p \in Provs :
                      /\ Starts(p)
                      /\ prov'[p] = [key |-> k, pc |-> "kill_expired",
                                     expired |-> sandboxes[k]]
       /\ \A p \in Provs :
             (prov[p].pc = "kill_expired" /\ prov'[p] # prov[p])
             => /\ kills'[prov[p].expired] = kills[prov[p].expired] + 1
                /\ prov'[p].pc = "creating"]_vars

\* the pool was full with the expired slot of k in it; acquire(k) has
\* registered k anew and the provisioning task is about to tear the old
\* handle down
C17_Witness ==
    \E p \in Provs :
        /\ prov[p].pc = "kill_expired"
        /\ prov[p].expired # NoHandle
        /\ kills[prov[p].expired] = 0
        /\ sandbox_metadata[prov[p].key] = NewMeta
        /\ ~InSandboxes(sandboxes, prov[p].key)
        /\ Cardinality(Slots) = max_sandboxes

\* ---- C18
\* C18: when the upload of a candidate's archive fails, the sweep deletes the
\* local archive and changes neither the directory nor the repository, and
\* it leaves nothing behind that keeps the directory from being taken again:
\* every sweep lists every trace directory that exists, the failed ones
\* included, and compresses every listed directory that is old and whose id
\* is not in the live-task set (unless the compression itself fails).
C18_UploadFailureRetried ==
    [][/\ (sweep.pc = "upload" /\ sweep' # sweep /\ sweep'.pc # "verify")
             => /\ sweep.cur \notin archives'
                /\ sweep.cur \in sweep'.failed
                /\ sweep'.pc = "loop"
                /\ UNCHANGED <<folders, repo, traces, shared_active_tasks>>
       /\ (sweep.pc = "wait" /\ sweep'.pc # "wait")
             => \A d \in Folders :
                   (folders[d] # "absent" /\ startswith_trace(d))
                      => d \in sweep'.todo
       /\ \A d \in Folders :
             (SweepConsider(d) /\ folders[d] = "old"
                /\ trace_id(d) \notin shared_active_tasks)
             => \/ sweep'.pc = "upload" /\ sweep'.cur = d /\ d \in archives'
                \/ d \in sweep'.failed /\ archives' = archives]_vars

\* the upload of the archive of an old directory has just failed: the archive
\* is gone, the directory is as it was, nothing is in the repository
C18_Witness ==
    /\ sweep.pc = "loop"
    /\ sweep.cur \in sweep.failed
    /\ sweep.cur \notin archives
    /\ sweep.cur \notin repo
    /\ folders[sweep.cur] = "old"


\* ---- C19
\* C19: when cleanup_sandboxes has run, no key holds a slot in state
\* "creating" or "ready", every handle the pool held has been killed, and no
\* provisioning task still in flight finds a "creating" slot of its key to
\* install its instance in.
C19_DrainLeavesNothing ==
    [][Drain =>
          /\ \A k \in Keys :
                sandbox_metadata'[k].state \notin {"creating", "ready"}
          /\ \A k \in Keys :
                InSandboxes(sandboxes, k) => kills'[sandboxes[k]] >= 1
          /\ \A p \in Provs :
                prov'[p].pc \in {"kill_expired", "creating"}
                   => sandbox_metadata'[prov'[p].key].state # "creating"]_vars

\* the instance of a provisioning task has been installed in a slot that was
\* "creating" while the handle of another key was killed and removed: the
\* state cleanup_sandboxes leaves behind when it runs with one slot "ready"
\* and one "creating", after the provisioning task of the latter returns
C19_InstalledAfterDrain ==
    \E k \in Keys : \E h \in Provs :
        /\ sandbox_metadata[k].state = "ready"
        /\ InSandboxes(sandboxes, k)
        /\ sandboxes[k] # h
        /\ kills[h] = 1
        /\ kills[sandboxes[k]] = 0
        /\ \A j \in Keys \ {k} : ~InSandboxes(sandboxes, j) /\ ~InMetadata(sandbox_metadata, j)


\* ---- C20
\* C20: a run of cleanup_stuck_creating_sandboxes leaves no key whose slot
\* is "creating" and older than SANDBOX_CREATION_MAX_TIME; each slot it
\* removed is in neither map afterwards, so the count the capacity test uses
\* went down by the number of removed slots; the handle and the metadata of
\* every other key ("ready", or "creating" within the maximum) are as they
\* were.
C20_SweepStuckRemovesOnlyStuck ==
    [][SweepStuck =>
          LET over == {k \in Keys : /\ sandbox_metadata[k].state = "creating"
                                    /\ sandbox_metadata[k].age = "over_max_time"}
          IN /\ \A k \in Keys :
                   ~(/\ sandbox_metadata'[k].state = "creating"
                     /\ sandbox_metadata'[k].age = "over_max_time")
             /\ \A k \in over :
                   ~InSandboxes(sandboxes', k) /\ ~InMetadata(sandbox_metadata', k)
             /\ SlotCount(sandboxes', sandbox_metadata')
                   = SlotCount(sandboxes, sandbox_metadata) - Cardinality(over)
             /\ \A k \in Keys \ over :
                   /\ sandboxes'[k] = sandboxes[k]
                   /\ sandbox_metadata'[k] = sandbox_metadata[k]]_vars

\* no call of the pool has returned yet: acquire_sandbox(k) has registered k
\* and waits for its second critical section, the provisioning of k is in
\* flight and nothing was killed; the slot of k is gone, which only the sweep
\* of a slot older than the maximum does
C20_Witness ==
    \E k \in Keys : \E p \in Provs :
        /\ prov[p] = [key |-> k, pc |-> "creating", expired |-> NoHandle]
        /\ FreeProvs = Provs \ {p}
        /\ ret.op = "none" /\ ret.pending = k
        /\ \A h \in Provs : kills[h] = 0
        /\ ~InMetadata(sandbox_metadata, k)
        /\ ~InSandboxes(sandboxes, k)


\* ---- C21
\* C21: when create_and_setup_sandbox raises in the provisioning task of k,
\* the key is afterwards in neither map (its slot is gone and is not counted
\* by the capacity test) and what the callers of acquire_sandbox got back is
\* unchanged; and an acquire_sandbox(k) for a key without a slot, below
\* capacity, registers k as "creating" and starts exactly one provisioning
\* task for it.
C21_FailureRemovesSlot ==
    [][/\ \A p \in Provs :
             ProvFail(p) =>
                 /\ ~InMetadata(sandbox_metadata', prov[p].key)
                 /\ ~InSandboxes(sandboxes', prov[p].key)
                 /\ ret' = ret
       /\ \A k \in Keys :
             (/\ PoolAcquireRegister(k)
              /\ ~InMetadata(sandbox_metadata, k)
              /\ ~InSandboxes(sandboxes, k))
             => /\ sandbox_metadata'[k] = NewMeta
                /\ Cardinality({p \in Provs : Starts(p)}) = 1
                /\ \A p \in Provs :
                      Starts(p) => prov'[p] = [key |-> k, pc |-> "creating",
                                               expired |-> NoHandle]]_vars

\* the provisioning of a later registration of k has failed and left behind,
\* without metadata, the handle that the provisioning of an earlier
\* registration had installed: the handle is still counted by the capacity
\* test
C21_HandleLeftCounted ==
    \E k \in Keys :
        /\ InSandboxes(sandboxes, k)
        /\ ~InMetadata(sandbox_metadata, k)
        /\ kills[sandboxes[k]] = 0
        /\ \E p \in Provs \ {sandboxes[k]} : prov[p] = DoneProv


\* ---- C22
\* C22: a worker that has left its wait loop because it read the stop
\* event as set starts no sweep: it goes nowhere but to its exit; stop()
\* returns only in a state where the worker process is not alive; and
\* stop() uses its means in the order stop event, terminate(), kill(), the
\* second and the third only after the join before it has timed out and
\* is_alive() was still true.
C22_StopEndsWorker ==
    [][/\ (svc.alive /\ svc.wpc = "broke") => svc'.wpc \in {"broke", "exited"}
       /\ (svc.spc # "idle" /\ svc'.spc = "idle")
             => ~svc'.alive /\ svc'.process = "none"
       /\ svc'.stage # svc.stage
             => \/ svc'.stage = "none" /\ svc.spc = "idle" /\ ~svc.alive
                \/ svc'.stage = "event" /\ svc.spc = "idle"
                \/ /\ svc'.stage = "terminate" /\ svc.stage = "event"
                   /\ svc.spc = "timeout1" /\ svc.alive
                \/ /\ svc'.stage = "kill" /\ svc.stage = "terminate"
                   /\ svc.spc = "timeout2" /\ svc.alive]_vars

\* stop() has returned after going as far as kill(): the process is gone
C22_Witness ==
    /\ svc.spc = "idle"
    /\ svc.stage = "kill"
    /\ svc.process = "none"
    /\ ~svc.alive
    /\ svc.stop_event


\* ---- C23
\* C23: the directory trace-invalid, whose name has no model part, is never
\* compressed, never uploaded and never deleted by the sweep.
C23_BadNameSkipped ==
    [][/\ trace_invalid \notin archives'
       /\ trace_invalid \notin repo'
       /\ ~Deleted(trace_invalid)]_vars

\* the sweep has uploaded the archive of trace-invalid and removed the
\* directory
C23_BadNameDeleted ==
    /\ folders[trace_invalid] = "absent"
    /\ trace_invalid \in repo
    /\ sweep.cur = trace_invalid
    /\ sweep.verified


\* ---- C24
\* C24: whatever happens to one folder of the listing (stat, compression,
\* upload, verification or deletion failing), the sweep stays in its loop,
\* no step takes more than one folder off the folders still to do, and the
\* sweep returns only when none is left; and the call of _process_old_folders ending, by return
\* or by exception, leaves the worker process alive at the top of its
\* loop, from where, unless the stop event is set, it enters the next
\* wait (only SIGKILL ends a worker during a sweep).
C24_FailuresAreContained ==
    [][/\ (sweep.pc # "wait" /\ sweep' # sweep)
             => \/ /\ sweep'.pc \in {"loop", "upload", "verify", "delete"}
                   /\ sweep'.todo \subseteq sweep.todo
                   /\ Cardinality(sweep.todo \ sweep'.todo) <= 1
                \/ sweep'.pc = "wait" /\ sweep.pc = "loop" /\ sweep.todo = {}
       /\ (sweep.pc # "wait" /\ sweep'.failed # sweep.failed)
             => sweep'.pc = "loop"
       /\ (svc.wpc = "sweep" /\ svc'.wpc # "sweep")
             => \/ svc'.wpc = "top" /\ svc'.alive
                \/ svc.sigkill /\ ~svc'.sigkill
       /\ (svc.wpc = "top" /\ svc.alive /\ ~svc.stop_event /\ svc'.wpc # "top")
             => \/ svc'.wpc = "tick" /\ svc'.alive
                \/ svc.sigkill /\ ~svc'.sigkill]_vars

\* rmtree has just raised for a verified folder (the folder and its archive
\* are still there) while another folder of the listing is still to do
C24_Witness ==
    /\ sweep.pc = "loop"
    /\ sweep.verified
    /\ sweep.cur \in sweep.failed
    /\ folders[sweep.cur] # "absent"
    /\ sweep.cur \in archives
    /\ sweep.todo # {}


\* ---- C25
\* C25: while the age of a directory is below the threshold, no step of the
\* sweep makes an archive of it, puts its archive into the repository or
\* deletes it, whatever the live-task set holds.
C25_RecentFolderUntouched ==
    [][\A d \in Folders :
          folders[d] = "new"
             => /\ d \in archives' => d \in archives
                /\ d \in repo' => d \in repo
                /\ ~Deleted(d)]_vars

\* the sweep is about to delete a directory that was written to after the
\* sweep had found it old enough
C25_RecentFolderDeleted ==
    /\ sweep.pc = "delete"
    /\ sweep.verified
    /\ folders[sweep.cur] = "new"


\* ---- C26
\* C26: acquire_sandbox(k) for a key that has a handle and metadata in state
\* "ready" created less than SANDBOX_CREATION_TIMEOUT ago returns "ready"
\* with that handle, starts no provisioning task, kills nothing, and changes
\* nothing in the two maps but the last_accessed of k.
C26_ReuseChangesNothingElse ==
    [][\A k \in Keys :
          (/\ AcquireCalled(k)
           /\ InSandboxes(sandboxes, k)
           /\ sandbox_metadata[k].state = "ready"
           /\ sandbox_metadata[k].age = "under_timeout")
          => /\ ret'.op = "acquire" /\ ret'.key = k
             /\ ret'.state = "ready"
             /\ ret'.handle = sandboxes[k]
             /\ prov' = prov
             /\ kills' = kills
             /\ sandboxes' = sandboxes
             /\ sandbox_metadata' =
                   [sandbox_metadata EXCEPT ![k].last_accessed = "later"]]_vars

\* acquire_sandbox has just returned the registered handle of a key for
\* reuse, with another key's slot in the pool
C26_Witness ==
    /\ ret.op = "acquire"
    /\ ret.state = "ready"
    /\ ret.handle # NoHandle
    /\ sandboxes[ret.key] = ret.handle
    /\ sandbox_metadata[ret.key].state = "ready"
    /\ sandbox_metadata[ret.key].last_accessed = "later"
    /\ \E j \in Keys \ {ret.key} : InMetadata(sandbox_metadata, j)


\* ---- C27
\* C27: step_callback appends no step to a Task Record whose completed flag
\* is set. (The callback that goes on to send the progress event has just
\* run update_step, lines 395-400.)
C27_NoStepAfterCompleted ==
    [][\A r \in Runs :
          (run[r].pc = "cb" /\ run'[r].pc = "cb_send")
             => ~active_tasks[KeyOf(r)].completed]_vars

\* the completed flag of the record has been set while step_callback is
\* between its first test of the flag and update_step
C27_FlagSetBeforeAppend ==
    \E r \in Runs :
        /\ run[r].pc = "cb"
        /\ InActiveTasks(active_tasks, KeyOf(r))
        /\ active_tasks[KeyOf(r)].completed
        /\ last_screenshot[KeyOf(r)] = "image"
        /\ task_websockets[KeyOf(r)] /\ Connected(KeyOf(r))
        /\ \A q \in Runs \ {r} : run[q].pc = "unused"


\* ---- C28
\* C28: a key has a handle in self.sandboxes exactly when its metadata
\* exists with state "ready": a "creating" key has no handle, and no key
\* without metadata has one.
C28_HandleIffReady ==
    \A k \in Keys :
        InSandboxes(sandboxes, k) <=> sandbox_metadata[k].state = "ready"

\* a handle is registered for a key that has no metadata
C28_HandleWithoutMetadata ==
    \E k \in Keys :
        /\ InSandboxes(sandboxes, k)
        /\ ~InMetadata(sandbox_metadata, k)
        /\ kills[sandboxes[k]] = 0
        /\ prov[sandboxes[k]] = DoneProv


\* ---- C29
\* C29: whoever holds sandbox_lock is not in a remote call: no provisioning
\* task holds the lock while it kills an expired or orphaned instance or
\* creates one.
C29_NoRemoteCallUnderLock ==
    \A p \in Provs :
        sandbox_lock = p
           => prov[p].pc \notin {"kill_expired", "creating", "orphan_kill"}

\* a provisioning task holds the lock during the kill of its orphaned
\* instance while an acquire_sandbox call waits for its second critical
\* section
C29_KillUnderLock ==
    \E p \in Provs :
        /\ sandbox_lock = p
        /\ prov[p].pc = "orphan_kill"
        /\ kills[p] = 0
        /\ ret.pending # "none"


\* ---- C30
\* C30: when a provisioning task of key k returns or fails while the slot
\* of k is that of a later registration (a task started later for k is
\* still at work on a "creating" slot, or the slot holds the instance of a
\* task started later), it changes neither the handle nor the metadata of
\* k. Provisioning tasks are numbered in the order they are started.
C30_StaleProvisioningHarmless ==
    [][\A p \in Provs :
          (/\ prov[p].pc = "creating"
           /\ prov'[p] # prov[p]
           /\ \/ /\ sandbox_metadata[prov[p].key].state = "creating"
                 /\ \E q \in Provs :
                       /\ q > p
                       /\ prov[q].key = prov[p].key
                       /\ prov[q].pc \in {"kill_expired", "creating"}
              \/ sandboxes[prov[p].key] > p)
          => /\ sandboxes'[prov[p].key] = sandboxes[prov[p].key]
             /\ sandbox_metadata'[prov[p].key] = sandbox_metadata[prov[p].key]]_vars

\* the slot of k is "ready" with the instance of a provisioning task that
\* was started before the one still at work for k
C30_StaleInstanceInstalled ==
    \E k \in Keys : \E p \in Provs : \E q \in Provs :
        /\ q > p
        /\ sandboxes[k] = p
        /\ sandbox_metadata[k].state = "ready"
        /\ kills[p] = 0
        /\ prov[q].key = k
        /\ prov[q].pc = "creating"


\* ---- C31
\* the places an instance can be in before kill() is called on it: the
\* handle of a key, the expired handle given to a provisioning task, the
\* instance of a provisioning task that found its slot gone
Held(sb, pv, h) ==
    \/ \E k \in Keys : sb[k] = h
    \/ \E q \in Provs : pv[q].expired = h
    \/ pv[h].pc = "orphan_kill"

\* C31: every instance whose provisioning succeeded and on which kill() was
\* not called is the handle of exactly one key, whose slot is "ready", or is
\* with the operation that tears it down; a step that takes an instance out
\* of these places calls kill() on it, kill() is called only on an instance
\* taken out of them, an instance is installed only once, and kill() is
\* called on no instance twice.
C31_HandlesTornDownOnce ==
    /\ [](\A h \in Provs :
            /\ kills[h] <= 1
            /\ Cardinality({k \in Keys : sandboxes[k] = h}) <= 1
            /\ \A k \in Keys :
                  sandboxes[k] = h => sandbox_metadata[k].state = "ready")
    /\ [][\A h \in Provs :
            /\ (Held(sandboxes, prov, h) /\ ~Held(sandboxes', prov', h))
                  => kills'[h] = kills[h] + 1
            /\ kills'[h] # kills[h] => ~Held(sandboxes', prov', h)
            /\ (\E k \in Keys : sandboxes'[k] = h /\ sandboxes[k] # h)
                  => kills[h] = 0 /\ ~Held(sandboxes, prov, h)]_vars

\* an instance that was installed for k is registered and was never killed,
\* and the key has no metadata: no slot of k is "ready"
C31_HandleNotReady ==
    \E k \in Keys :
        /\ InSandboxes(sandboxes, k)
        /\ kills[sandboxes[k]] = 0
        /\ sandbox_metadata[k].state # "ready"


\* ---- C32
\* C32: once the websocket of k is closed, the completed flag of k's record
\* is set and k has no slot, an attempt of k's execution loop to get its
\* sandbox registers no "creating" slot for k and starts no provisioning
\* task.
C32_NoProvisioningAfterClose ==
    [][\A r \in Runs :
          (/\ RunnerAcquire(r)
           /\ conn[KeyOf(r)] \in {"closed", "reclosed"}
           /\ active_tasks[KeyOf(r)].completed
           /\ ~HasSlot(KeyOf(r)))
          => /\ ~InMetadata(sandbox_metadata', KeyOf(r))
             /\ \A p \in Provs : ~Starts(p)]_vars

\* the only loop of k was still in its attempts when the websocket closed:
\* the cleanup unbound the key, set the flag and released the slot; k is
\* "creating" again, registered by the loop's next attempt, which is
\* between the two critical sections of acquire_sandbox
C32_RegisteredAfterClose ==
    \E k \in Keys :
        /\ conn[k] = "closed"
        /\ ~task_websockets[k]
        /\ active_tasks[k] = [rid |-> 1, completed |-> TRUE]
        /\ run[1].key = k /\ run[1].pc = "acquire2"
        /\ run[2].pc = "unused"
        /\ sandbox_metadata[k] = NewMeta
        /\ \E p \in Provs : prov[p].key = k /\ prov[p].pc = "creating"


\* ---- C33
\* C33: a step that records the terminal state "success" on a Task Record
\* is the return of agent.run (the callback of the final step) or the
\* completion send that follows it, and the loop that records it has
\* caught no WebSocketException.
C33_SuccessOnlyOnReturn ==
    [][\A r \in Runs :
          (hist'[r].finals # hist[r].finals /\ hist'[r].final_state = "success")
          => /\ ~hist'[r].websocket_exception
             /\ \E q \in Runs : CallbackShot(q) \/ RunnerSendComplete(q)]_vars

\* the loop of k has ended on a WebSocketException before it had a sandbox
\* and before any step, and "success" is the terminal state on k's record
C33_SuccessAfterWebSocketException ==
    \E r \in Runs :
        /\ run[r].pc = "done"
        /\ hist[r].finals = 1
        /\ hist[r].final_state = "success"
        /\ hist[r].websocket_exception
        /\ last_screenshot[run[r].key] = "absent"
        /\ \A p \in Provs : prov[p].pc \in {"unused", "creating"}


\* ---- C34
\* C34: in the step list of a Task Record, after any sequence of step
\* completions (with or without a step record) and evaluation updates, the
\* i-th record carries step id i.
C34_StepIdsAreIndices ==
    \A i \in 1..Len(active_task.steps) : active_task.steps[i].stepId = i

\* the agent's first step made no step record (token_usage was None) and
\* its second did: the first record of the list carries step id 2
C34_FirstRecordIsStepTwo ==
    /\ active_task.step_number = 2
    /\ Len(active_task.steps) = 1
    /\ active_task.steps[1].stepId = 2


\* ---- C35
\* what an attempt of loop r gets back from acquire_sandbox in this step
Response(r) ==
    IF run[r].pc = "acquire2" THEN AcquireSection2State(KeyOf(r))
    ELSE IF AcquireBranch(KeyOf(r)) = "register" THEN "none"
    ELSE AcquireBranch(KeyOf(r))
\* the positions of a loop from which it can still call acquire_sandbox or
\* execute a step
Proceeding == {"start", "send_start", "acquire", "acquire2", "send_vnc",
               "step", "cb", "cb_send", "cb_shot"}

\* C35: a loop that is about to call acquire_sandbox has made fewer than
\* max_attempts calls and has executed no step. An attempt that returns
\* "ready" takes the loop on to the stream URL and the agent, with the
\* key's registered handle; one that returns "max_sandboxes_reached", and
\* the max_attempts-th that returns "creating", set the terminal state
\* "error" with no step executed; an earlier one that returns "creating" is
\* followed by the next attempt. A loop with terminal state "error" makes
\* no further attempt and executes no step, and the terminal state it
\* records when it removes the record is "error".
C35_AttemptsBounded ==
    /\ [](\A r \in Runs :
            run[r].pc \in {"acquire", "acquire2"}
            => run[r].att < max_attempts /\ run[r].step = 0)
    /\ [][\A r \in Runs :
            /\ ((RunnerAcquire(r) \/ RunnerAcquire2(r))
                   /\ InActiveTasks(active_tasks, KeyOf(r)))
               => /\ Response(r) = "ready"
                     => /\ run'[r].pc = "send_vnc"
                        /\ sandboxes'[KeyOf(r)] = sandboxes[KeyOf(r)]
                        /\ sandboxes[KeyOf(r)] # NoHandle
                  /\ (\/ Response(r) = "max_sandboxes_reached"
                      \/ /\ Response(r) = "creating"
                         /\ run[r].att = max_attempts - 1)
                     => /\ run'[r].pc = "send_error"
                        /\ run'[r].final_state = "error"
                        /\ run'[r].step = 0
                        /\ \A p \in Provs : ~Starts(p)
                  /\ (Response(r) = "creating" /\ run[r].att < max_attempts - 1)
                     => /\ run'[r].pc = "acquire"
                        /\ run'[r].att = run[r].att + 1
            /\ run[r].final_state = "error"
               => /\ run'[r].pc \notin Proceeding
                  /\ run'[r].step = 0 \/ run'[r].step = run[r].step
                  /\ (/\ run'[r] # run[r]
                      /\ InActiveTasks(active_tasks, KeyOf(r))
                      /\ ~InActiveTasks(active_tasks', KeyOf(r)))
                     => hist'[active_tasks[KeyOf(r)].rid].final_state = "error"]_vars

\* the pool is full with the slots of the two other keys and the key of
\* the loop has none: the loop's first attempt was turned away, the loop
\* has set "error" without a step and is sending the error event
C35_Witness ==
    \E r \in Runs :
        /\ run[r].pc = "send_error"
        /\ run[r].final_state = "error"
        /\ run[r].att = 0 /\ run[r].step = 0
        /\ ~HasSlot(KeyOf(r))
        /\ \A k \in Keys \ {KeyOf(r)} : sandbox_metadata[k].state = "creating"
        /\ last_screenshot[KeyOf(r)] = "None"


\* ---- C36
\* the positions at which a loop has called a send of the WebSocketManager
\* and awaits it: start, stream URL, progress, error, completion
Sending == {"send_start", "send_vnc", "cb_send", "send_error", "send_complete"}

\* C36: a step in which an execution loop calls a send for one of its
\* events is taken while the websocket of its key is open.
C36_SendsOnlyWhenOpen ==
    [][\A r \in Runs :
          (run'[r].pc \in Sending /\ run'[r].pc # run[r].pc)
          => conn[run'[r].key] = "open"]_vars

\* the websocket of k closed while k's only loop was in its attempts; the
\* slot of k, released by the close, was registered again by the loop and
\* is ready, and the loop has called send_vnc_url_set on the websocket it
\* took at its start
C36_SendAfterClose ==
    \E k \in Keys :
        /\ conn[k] = "closed"
        /\ run[1].key = k /\ run[1].pc = "send_vnc" /\ run[1].websocket
        /\ run[2].pc = "unused"
        /\ active_tasks[k] = [rid |-> 1, completed |-> TRUE]
        /\ InSandboxes(sandboxes, k)
        /\ sandbox_metadata[k].state = "ready"

====
